---- MODULE Spec2Model ----
(***************************************************************************)
(* Verification model of the diagram agent (backend/agent):                *)
(*   - the per-dialect validators and the generators' retry loop           *)
(*     (core/validators.py, core/python_gen.py, core/mermaid_gen.py);      *)
(*   - the router -> generator -> render-tool turn of                      *)
(*     core/agent_orchestrator.py;                                         *)
(*   - the DspyAgent turn of agent.py (keyword router, ReAct specialists,  *)
(*     tool wrapper of fastagent/dspy_agent.py, result extraction).        *)
(* Language-model calls, the MCP tool call and the history deserialiser    *)
(* are the environment: each is a nondeterministic choice over the         *)
(* outcomes the call can have, an exception included.                      *)
(***************************************************************************)
EXTENDS Integers, Sequences, FiniteSets, TLC

VARIABLES
    \* ---- generate_with_retry (one call) ----
    g_pc,          \* "idle" | "called" | "loop" | "returned" | "raised"
    g_dialect,     \* "python_diagrams" | "mermaid"
    g_maxRetries,  \* the max_retries argument
    g_i,           \* number of iterations of the retry for-loop completed
    g_calls,       \* number of calls of forward made so far
    g_result,      \* the local variable `result` (last forward result)
    g_returned,    \* the value returned to the caller
    g_log          \* one entry per forward call: [feedback, result]

VARIABLES
    \* ---- one turn: the inputs and the outcome (both agent() entry points) ----
    impl,          \* "core" (core/agent_orchestrator.py) | "dspy" (agent.py) |
                   \*   "generate" (DspyAgent.generate_impl) | "none"
    t_pc,          \* position in agent(): "start" | "route" | "generate" | "tool" |
                   \*   "specialist" | "resolve" | "extract" | "done" | "off"
    t_hist,        \* previous_history_json, by shape (see HistoryInputs)
    t_context,     \* the formatted conversation history handed to the modules
    t_loaded,      \* message history of the agent: "fresh" | "loaded"
    t_label,       \* what the classification call answered
    t_route,       \* the routing decision
    t_question,    \* the clarification question the model produced
    t_toolCalls,   \* every call of the external render tool: [id, tool, code, phase, failed]
    t_outcome,     \* how agent() ended (see Outcome)
    \* ---- DspyAgent state (fastagent/dspy_agent.py) ----
    d_counter,     \* call_counter of each tool wrapper
    d_collected,   \* _tool_results_collected, in insertion order: [id, content]
    d_observed,    \* what each wrapper invocation returned to the ReAct module
    d_history,     \* self.message_history of the DspyAgent
    d_aggHistory,  \* dspy_agent._aggregator.message_history: [set, messages]
    d_historyOut,  \* AgentResult.history_json: [returned, messages]
    d_traces,      \* the trace files written: [trace_id, user_request, tool_results]
    d_toolResults, \* what execute_pending_tools returned
    d_extracted    \* what _extract_tool_result_from_executed returned

VARIABLES
    \* ---- _extract_tool_result_from_executed on its own ----
    x_pc,          \* "input" | "returned" | "raised" | "off"
    x_results,     \* the tool_results argument, in dict order: [id, content]
    x_out          \* the value returned

VARIABLES
    \* ---- the diagram endpoints (django_monolith/diagrams_assistant/views.py) ----
    w_pc,          \* per request: "new" | "read" | "agent_returned" | "done" | "off"
    w_view,        \* per request: "create" (DiagramListCreate) | "version" (DiagramVersionCreate)
    w_text,        \* per request: request.data["text"]
    w_target,      \* per request: diagram_id of the URL ("version" only)
    w_prev,        \* per request: previous_history passed to the agent
    w_agent,       \* per request: how the agent call ended
    w_resp,        \* per request: the HTTP response
    db_diagrams,   \* ids of the Diagram rows
    db_history,    \* Diagram.agent_history of each row: the turns it holds
    db_versions,   \* DiagramVersion rows: [diagram, request]
    db_chat,       \* ChatMessage rows in creation order: [diagram, role, request]
    db_genlog,     \* DiagramGenerationLog rows: the requests logged
    \* ---- one validator instance and the validate calls made on it
    v_pc,          \* "ready" | "off"
    v_dialect,     \* the instance's class: PythonCodeValidator or MermaidCodeValidator
    v_calls,       \* the calls in order: [code, result]
    \* ---- generation POSTs under DiagramGenerationThrottle
    q_now,         \* timezone.now(), in days since 2026-01-01
    q_quota,       \* per user: the UserQuota row, or None
    q_log,         \* per user and day: the number of DiagramGenerationLog rows created that day
    q_pc,          \* per request: "new" | "allowed" | "done" | "off"
    q_user,        \* per request: request.user
    q_resp,        \* per request: the HTTP status, 0 while there is none
    \* ---- turns of the DSPy agent that overlap in one event loop
    k_pc,          \* per turn: "new" | "main" | "in_call" | "resolved" | "done" | "off"
    k_inst,        \* per turn: the DspyAgent instance it built, 0 before that
    k_stack,       \* the turns that have started and not ended, innermost last
    k_counter,     \* per instance: call_counter[0] of its tool wrapper
    k_collected,   \* per instance: _tool_results_collected, [id, turn] in insertion order
    k_made,        \* per turn: the ids of the tool calls the turn made
    k_trace        \* per turn: the tool_results its trace file holds, once saved

genVars == <<g_pc, g_dialect, g_maxRetries, g_i, g_calls, g_result, g_returned, g_log>>

turnVars == <<impl, t_pc, t_hist, t_context, t_loaded, t_label, t_route, t_question,
              t_toolCalls, t_outcome>>

dspyVars == <<d_counter, d_collected, d_observed, d_history, d_aggHistory, d_historyOut,
              d_traces, d_toolResults, d_extracted>>

extractVars == <<x_pc, x_results, x_out>>

validateVars == <<v_pc, v_dialect, v_calls>>

quotaVars == <<q_now, q_quota, q_log, q_pc, q_user, q_resp>>

concVars == <<k_pc, k_inst, k_stack, k_counter, k_collected, k_made, k_trace>>

webVars == <<w_pc, w_view, w_text, w_target, w_prev, w_agent, w_resp,
             db_diagrams, db_history, db_versions, db_chat, db_genlog>>

vars == <<genVars, turnVars, dspyVars, extractVars, validateVars, quotaVars, concVars, webVars>>

-----------------------------------------------------------------------------
(* Bounds of the model *)

\* largest max_retries argument explored by SpecGen
MaxRetries == 3

\* most tool invocations a ReAct specialist makes in one turn
MaxToolCalls == 2

\* most entries of a tool_results dictionary explored by SpecExtract
MaxResults == 3

\* validate calls made on one validator instance
MaxValidations == 3

\* the last day the clock reaches, in days since 2026-01-01
MaxDay == 1

(* Program constants *)

\* max_retries passed by the orchestrator
OrchestratorMaxRetries == 2

DEFAULT_QUOTA_LIMIT == 10

DEFAULT_QUOTA_PERIOD == "day"

Dialects == {"python_diagrams", "mermaid"}

\* Python's None
None == [none |-> TRUE]

\* agent() has not ended yet
NoOutcome == [kind |-> "none"]

\* agent() ended with an exception other than the three it documents
Raised(exc) == [kind |-> "exception", exc |-> exc]

-----------------------------------------------------------------------------
(* ValidationResult and the validators (core/validators.py)               *)

ValidationResult(is_valid, errors, warnings) ==
    [is_valid |-> is_valid, errors |-> errors, warnings |-> warnings]

\* ValidationResult.get_feedback: errors block, then warnings block
get_feedback(v) ==
    LET e == IF v.errors # <<>> THEN <<"ERRORS:">> \o v.errors ELSE <<>>
        w == IF v.warnings # <<>> THEN <<"WARNINGS:">> \o v.warnings ELSE <<>>
    IN  IF e \o w # <<>> THEN e \o w ELSE <<"Code is valid">>

FORBIDDEN_KEYWORDS ==
    <<"import ", "from ", "__import__", "eval(", "exec(", "compile(", "open(", "file(">>

DANGEROUS_MODULES ==
    <<"os.", "sys.", "subprocess", "pathlib", "__builtins__", "__globals__", "__locals__">>

(* A Python code string is abstracted to what the validator reads of it:   *)
(*   blank      not code or not code.strip()                               *)
(*   substrings the FORBIDDEN_KEYWORDS / DANGEROUS_MODULES it contains     *)
(*   withStmt   "with " in code.lower()                                    *)
(*   syntaxErr  ast.parse raises SyntaxError                               *)
(*   edges      ">>" in code or "Edge(" in code                            *)
(*   assigns    code.count("=") > 0                                        *)
PyCode(blank, substrings, withStmt, syntaxErr, edges, assigns) ==
    [lang |-> "python", blank |-> blank, substrings |-> substrings,
     withStmt |-> withStmt, syntaxErr |-> syntaxErr, edges |-> edges,
     assigns |-> assigns]

\* a validator whose flag also counts the warnings
PythonCodeValidator_validate_WarningsCount(code) ==
    IF code.blank
    THEN ValidationResult(FALSE, <<"Code is empty">>, <<>>)
    ELSE
      LET e1 == SelectSeq(FORBIDDEN_KEYWORDS, LAMBDA k : k \in code.substrings)
          e2 == SelectSeq(DANGEROUS_MODULES, LAMBDA m : m \in code.substrings)
          e3 == IF code.withStmt THEN <<"with statement">> ELSE <<>>
          e4 == IF code.syntaxErr THEN <<"Syntax error">> ELSE <<>>
          errors == e1 \o e2 \o e3 \o e4
          w1 == IF ~code.edges THEN <<"No edge connections found">> ELSE <<>>
          w2 == IF ~code.assigns THEN <<"No variable assignments found">> ELSE <<>>
      IN  ValidationResult(Len(errors) + Len(w1 \o w2) = 0, errors, w1 \o w2)

PythonCodeValidator_validate(code) ==
    IF code.blank
    THEN ValidationResult(FALSE, <<"Code is empty">>, <<>>)
    ELSE
      LET e1 == SelectSeq(FORBIDDEN_KEYWORDS, LAMBDA k : k \in code.substrings)
          e2 == SelectSeq(DANGEROUS_MODULES, LAMBDA m : m \in code.substrings)
          e3 == IF code.withStmt THEN <<"with statement">> ELSE <<>>
          e4 == IF code.syntaxErr THEN <<"Syntax error">> ELSE <<>>
          errors == e1 \o e2 \o e3 \o e4
          w1 == IF ~code.edges THEN <<"No edge connections found">> ELSE <<>>
          w2 == IF ~code.assigns THEN <<"No variable assignments found">> ELSE <<>>
      IN  ValidationResult(Len(errors) = 0, errors, w1 \o w2)

DIAGRAM_TYPES ==
    <<"flowchart", "graph", "sequenceDiagram", "classDiagram", "stateDiagram",
      "erDiagram", "gantt", "pie", "journey", "gitGraph">>

RECURSIVE join(_, _)
\* sep.join(items)
join(sep, items) ==
    IF items = <<>> THEN ""
    ELSE IF Len(items) = 1 THEN items[1]
    ELSE items[1] \o sep \o join(sep, Tail(items))

(* A Mermaid code string is abstracted to what the validator reads of it:  *)
(*   blank      not code or not code.strip()                               *)
(*   declared   the first DIAGRAM_TYPES entry the first non-blank line     *)
(*              starts with (case-insensitively), or "none"                *)
(*   nlines     number of non-blank lines (1 or 2, 2 standing for more)    *)
(*   arrows, nodes, participants, entities, relationships: the substrings  *)
(*              and patterns the kind-specific checks look for             *)
MermaidCode(blank, declared, nlines, arrows, nodes, participants, entities, relationships) ==
    [lang |-> "mermaid", blank |-> blank, declared |-> declared, nlines |-> nlines,
     arrows |-> arrows, nodes |-> nodes, participants |-> participants,
     entities |-> entities, relationships |-> relationships]

validate_flowchart(code) ==
    (IF ~code.arrows THEN <<"No arrow connections found in flowchart">> ELSE <<>>)
    \o (IF ~code.nodes THEN <<"No node definitions found">> ELSE <<>>)

validate_sequence(code) ==
    IF ~(code.participants \/ code.arrows)
    THEN <<"No participants or message arrows found in sequence diagram">>
    ELSE <<>>

validate_er(code) ==
    (IF ~code.entities THEN <<"No entity definitions found">> ELSE <<>>)
    \o (IF ~code.relationships THEN <<"No relationship symbols found">> ELSE <<>>)

\* a validator whose kind-specific findings are errors
MermaidCodeValidator_validate_KindErrors(code) ==
    IF code.blank
    THEN ValidationResult(FALSE, <<"Code is empty">>, <<>>)
    ELSE IF code.declared = "none"
    THEN ValidationResult(FALSE,
             <<"First line must declare diagram type. Valid types: " \o join(", ", DIAGRAM_TYPES)>>,
             <<>>)
    ELSE
      LET errors == IF code.declared \in {"flowchart", "graph"} THEN validate_flowchart(code)
                    ELSE IF code.declared = "sequenceDiagram" THEN validate_sequence(code)
                    ELSE IF code.declared = "erDiagram" THEN validate_er(code)
                    ELSE <<>>
          w2 == IF code.nlines < 2
                THEN <<"Diagram only has type declaration, no content">> ELSE <<>>
      IN  ValidationResult(Len(errors) = 0, errors, w2)

MermaidCodeValidator_validate(code) ==
    IF code.blank
    THEN ValidationResult(FALSE, <<"Code is empty">>, <<>>)
    ELSE IF code.declared = "none"
    THEN ValidationResult(FALSE,
             <<"First line must declare diagram type. Valid types: " \o join(", ", DIAGRAM_TYPES)>>,
             <<>>)
    ELSE
      LET w1 == IF code.declared \in {"flowchart", "graph"} THEN validate_flowchart(code)
                ELSE IF code.declared = "sequenceDiagram" THEN validate_sequence(code)
                ELSE IF code.declared = "erDiagram" THEN validate_er(code)
                ELSE <<>>
          w2 == IF code.nlines < 2
                THEN <<"Diagram only has type declaration, no content">> ELSE <<>>
          errors == <<>>
      IN  ValidationResult(Len(errors) = 0, errors, w1 \o w2)

-----------------------------------------------------------------------------
(* What the language model can answer to one generation call: a code       *)
(* string of the dialect (a few representatives of each validation         *)
(* verdict), or no answer at all (the call raises).                        *)

PyCodes ==
    { PyCode(TRUE, {}, FALSE, FALSE, FALSE, FALSE),             \* empty answer
      PyCode(FALSE, {"import "}, FALSE, FALSE, TRUE, TRUE),      \* denylisted construct
      PyCode(FALSE, {}, FALSE, FALSE, FALSE, TRUE),              \* valid, no edges (warning)
      PyCode(FALSE, {}, FALSE, FALSE, TRUE, TRUE) }              \* valid

MermaidCodes ==
    { MermaidCode(TRUE, "none", 1, FALSE, FALSE, FALSE, FALSE, FALSE),      \* empty answer
      MermaidCode(FALSE, "none", 2, TRUE, TRUE, FALSE, FALSE, FALSE),       \* no declaration
      MermaidCode(FALSE, "flowchart", 1, FALSE, FALSE, FALSE, FALSE, FALSE),\* valid, warnings
      MermaidCode(FALSE, "flowchart", 2, TRUE, TRUE, FALSE, FALSE, FALSE) } \* valid

CodesOf(dialect) == IF dialect = "python_diagrams" THEN PyCodes ELSE MermaidCodes

validate(dialect, code) ==
    IF dialect = "python_diagrams"
    THEN PythonCodeValidator_validate(code)
    ELSE MermaidCodeValidator_validate(code)

-----------------------------------------------------------------------------
(* The Python validator on code strings: what it reads of a string is      *)
(* computed from the string's characters, as validate does                 *)

\* sub in s
contains(s, sub) ==
    \E i \in 1..(Len(s) - Len(sub) + 1) : SubSeq(s, i, i + Len(sub) - 1) = sub

\* s.count(ch), ch one character
count(s, ch) == Cardinality({i \in 1..Len(s) : SubSeq(s, i, i) = ch})

ascii_uppercase == "ABCDEFGHIJKLMNOPQRSTUVWXYZ"

ascii_lowercase == "abcdefghijklmnopqrstuvwxyz"

lower_char(c) ==
    IF \E i \in 1..Len(ascii_uppercase) : SubSeq(ascii_uppercase, i, i) = c
    THEN LET i == CHOOSE j \in 1..Len(ascii_uppercase) : SubSeq(ascii_uppercase, j, j) = c
         IN  SubSeq(ascii_lowercase, i, i)
    ELSE c

RECURSIVE str_lower(_)
\* s.lower()
str_lower(s) ==
    IF Len(s) = 0 THEN ""
    ELSE lower_char(SubSeq(s, 1, 1)) \o str_lower(SubSeq(s, 2, Len(s)))

whitespace == {" ", "\t", "\n", "\r", "\f"}

\* not code or not code.strip()
is_blank(s) == \A i \in 1..Len(s) : SubSeq(s, i, i) \in whitespace

(* The code strings handed to the Python validator: the inputs of the unit *)
(* tests and strings of the same constructs written with other spacing or  *)
(* inside string literals.                                                 *)
PythonSources ==
    { "",
      " \n\t",
      "web = ELB('web')\nweb >> web",
      "web = ELB('web')",
      "EC2('a')",
      "import os",
      "import\tos",
      "import os\nimport sys",
      "db = RDS('Data from S3')",
      "eval('1+1')",
      "x = open('f')",
      "os.system('ls')",
      "with Diagram('t'):\n    web = ELB('web')",
      "web = ELB('web'" }

\* ast.parse(code) raises SyntaxError
ast_parse_raises(code) == code \in {"web = ELB('web'"}

PyCodeOf(code) ==
    PyCode(is_blank(code),
           {k \in {FORBIDDEN_KEYWORDS[i] : i \in DOMAIN FORBIDDEN_KEYWORDS}
                   \cup {DANGEROUS_MODULES[i] : i \in DOMAIN DANGEROUS_MODULES} :
               contains(code, k)},
           contains(str_lower(code), "with "),
           ast_parse_raises(code),
           contains(code, ">>") \/ contains(code, "Edge("),
           count(code, "=") # 0)

(* The Mermaid validator on code strings *)

\* s.startswith(prefix)
startswith(s, prefix) == Len(prefix) <= Len(s) /\ SubSeq(s, 1, Len(prefix)) = prefix

RECURSIVE lstrip(_)
lstrip(s) ==
    IF Len(s) > 0 /\ SubSeq(s, 1, 1) \in whitespace
    THEN lstrip(SubSeq(s, 2, Len(s))) ELSE s

RECURSIVE rstrip(_)
rstrip(s) ==
    IF Len(s) > 0 /\ SubSeq(s, Len(s), Len(s)) \in whitespace
    THEN rstrip(SubSeq(s, 1, Len(s) - 1)) ELSE s

\* s.strip()
strip(s) == rstrip(lstrip(s))

RECURSIVE split_lines(_)
\* s.split("\n")
split_lines(s) ==
    IF ~contains(s, "\n") THEN <<s>>
    ELSE LET i == CHOOSE k \in 1..Len(s) :
                      /\ SubSeq(s, k, k) = "\n"
                      /\ \A j \in 1..(k - 1) : SubSeq(s, j, j) # "\n"
         IN  <<SubSeq(s, 1, i - 1)>> \o split_lines(SubSeq(s, i + 1, Len(s)))

\* [line.strip() for line in code.split("\n") if line.strip()]
non_blank_lines(code) ==
    LET all == split_lines(code)
        stripped == [i \in DOMAIN all |-> strip(all[i])]
    IN  SelectSeq(stripped, LAMBDA l : Len(l) > 0)

\* the first entry of DIAGRAM_TYPES the lowered first line starts with, or "none"
declared_type(first_line) ==
    LET low == str_lower(first_line)
        hits == SelectSeq(DIAGRAM_TYPES, LAMBDA d : startswith(low, str_lower(d)))
    IN  IF hits = <<>> THEN "none" ELSE hits[1]

\* re.search of "open.*close": close after open on the same line
re_search_pair(code, open, close) ==
    \E i \in 1..Len(code) :
        /\ SubSeq(code, i, i) = open
        /\ \E j \in (i + 1)..Len(code) :
              /\ SubSeq(code, j, j) = close
              /\ \A k \in (i + 1)..(j - 1) : SubSeq(code, k, k) # "\n"

word_chars == ascii_uppercase \o ascii_lowercase \o "0123456789_"

\* re.search(r"\w+\s*{", code)
re_search_entity(code) ==
    \E j \in 1..Len(code) :
        /\ SubSeq(code, j, j) = "{"
        /\ \E i \in 1..(j - 1) :
              /\ \A k \in (i + 1)..(j - 1) : SubSeq(code, k, k) \in whitespace
              /\ contains(word_chars, SubSeq(code, i, i))

any_in(subs, code) == \E sub \in subs : contains(code, sub)

MermaidCodeOf(code) ==
    LET lines == non_blank_lines(code)
        declared == IF lines = <<>> THEN "none" ELSE declared_type(lines[1])
    IN  MermaidCode(
            is_blank(code),
            declared,
            IF Len(lines) < 2 THEN 1 ELSE 2,
            IF declared = "sequenceDiagram"
            THEN any_in({"->", "->>", "-->", "-->>"}, code)
            ELSE any_in({"-->", "---", "-.->", "==>", "->", "~~>"}, code),
            \/ re_search_pair(code, "[", "]") \/ re_search_pair(code, "(", ")")
            \/ re_search_pair(code, "{", "}"),
            contains(str_lower(code), "participant "),
            re_search_entity(code),
            any_in({"}o", "}|", "||", "|o", "o{"}, code))

(* The code strings handed to the Mermaid validator: the inputs of the     *)
(* unit tests, shortened, and variants with blank lines, other case and a  *)
(* declaration that is not on the first line.                              *)
MermaidSources ==
    { "",
      " \n ",
      "A --> B",
      "A --> B\nflowchart TD",
      "flowchart TD\n A[x] --> B[y]",
      "flowchart TD\n A[x]\n B[y]",
      "\n  Graph LR",
      "sequenceDiagram\n A->>B: hi",
      "sequenceDiagram\n Alice",
      "erDiagram\n C ||--o{ O : has",
      "erDiagram\n C",
      "stateDiagram-v2\n [*] --> S",
      "pie" }

\* validator.validate(code) of an instance of either class
validator_call(dialect, code) ==
    IF dialect = "python_diagrams"
    THEN PythonCodeValidator_validate(PyCodeOf(code))
    ELSE MermaidCodeValidator_validate(MermaidCodeOf(code))

InputsOf(dialect) == IF dialect = "python_diagrams" THEN PythonSources ELSE MermaidSources

\* a validator that keeps its error list between calls
validator_validate_Stateful ==
    /\ v_pc = "ready"
    /\ Len(v_calls) < MaxValidations
    /\ \E code \in InputsOf(v_dialect) :
         LET r == validator_call(v_dialect, code)
             kept == IF v_calls = <<>> THEN <<>> ELSE v_calls[Len(v_calls)].result.errors
             errors == kept \o r.errors
         IN  v_calls' = Append(v_calls,
                 [code |-> code,
                  result |-> ValidationResult(Len(errors) = 0, errors, r.warnings)])
    /\ UNCHANGED <<v_pc, v_dialect>>
    /\ UNCHANGED <<genVars, turnVars, dspyVars, extractVars, quotaVars, concVars, webVars>>

\* one call of validate on the instance; errors and warnings are lists local to the call
validator_validate ==
    /\ v_pc = "ready"
    /\ Len(v_calls) < MaxValidations
    /\ \E code \in InputsOf(v_dialect) :
         v_calls' = Append(v_calls,
             [code |-> code, result |-> validator_call(v_dialect, code)])
    /\ UNCHANGED <<v_pc, v_dialect>>
    /\ UNCHANGED <<genVars, turnVars, dspyVars, extractVars, quotaVars, concVars, webVars>>

-----------------------------------------------------------------------------
(* The generators (core/python_gen.py, core/mermaid_gen.py)                *)

NoFeedback == <<>>

\* forward, given the code the predictor answered: validate and wrap
forward(dialect, code, feedback) ==
    LET v == validate(dialect, code)
    IN  [code |-> code, validation_result |-> v, is_valid |-> v.is_valid]

\* forward's enhanced_intent: the user intent, then the feedback block if there is feedback
enhanced_intent(validation_feedback) ==
    IF validation_feedback # NoFeedback
    THEN <<"user_intent", "PREVIOUS ATTEMPT FAILED VALIDATION:">> \o validation_feedback
             \o <<"Please fix the issues and regenerate.">>
    ELSE <<"user_intent">>

\* a first attempt that goes on to the loop although its result is valid
generate_first_attempt_NoEarlyReturn ==
    /\ g_pc = "called"
    /\ \E code \in CodesOf(g_dialect) :
         LET r == forward(g_dialect, code, NoFeedback) IN
         /\ g_result' = r
         /\ g_log' = Append(g_log, [feedback |-> NoFeedback,
                                    intent |-> enhanced_intent(NoFeedback), result |-> r])
         /\ g_calls' = g_calls + 1
         /\ g_pc' = "loop" /\ g_returned' = g_returned
    /\ UNCHANGED <<g_dialect, g_maxRetries, g_i>>
    /\ UNCHANGED <<turnVars, dspyVars, extractVars, validateVars, quotaVars, concVars, webVars>>

\* a retry whose feedback keeps the feedback of the attempts before
generate_retry_Accumulating ==
    /\ g_pc = "loop"
    /\ g_i < g_maxRetries
    /\ \E code \in CodesOf(g_dialect) :
         LET fb == g_log[Len(g_log)].feedback \o get_feedback(g_result.validation_result)
             r == forward(g_dialect, code, fb) IN
         /\ g_result' = r
         /\ g_log' = Append(g_log, [feedback |-> fb,
                                    intent |-> enhanced_intent(fb), result |-> r])
         /\ g_calls' = g_calls + 1
         /\ IF r.is_valid
            THEN g_pc' = "returned" /\ g_returned' = r /\ g_i' = g_i
            ELSE g_pc' = "loop" /\ g_returned' = g_returned /\ g_i' = g_i + 1
    /\ UNCHANGED <<g_dialect, g_maxRetries>>
    /\ UNCHANGED <<turnVars, dspyVars, extractVars, validateVars, quotaVars, concVars, webVars>>

LoopContinues_OffByOne(i, max_retries) == i <= max_retries

\* `for attempt in range(max_retries)`: another iteration follows
LoopContinues(i, max_retries) == i < max_retries

\* result = self.forward(user_intent, conversation_context); if result.is_valid: return
generate_first_attempt ==
    /\ g_pc = "called"
    /\ \E code \in CodesOf(g_dialect) :
         LET r == forward(g_dialect, code, NoFeedback) IN
         /\ g_result' = r
         /\ g_log' = Append(g_log, [feedback |-> NoFeedback,
                                    intent |-> enhanced_intent(NoFeedback), result |-> r])
         /\ g_calls' = g_calls + 1
         /\ IF r.is_valid
            THEN g_pc' = "returned" /\ g_returned' = r
            ELSE g_pc' = "loop" /\ g_returned' = g_returned
    /\ UNCHANGED <<g_dialect, g_maxRetries, g_i>>
    /\ UNCHANGED <<turnVars, dspyVars, extractVars, validateVars, quotaVars, concVars, webVars>>

\* the predictor call of the first forward raises: nothing catches it
generate_first_attempt_raises ==
    /\ g_pc = "called"
    /\ g_pc' = "raised"
    /\ g_calls' = g_calls + 1
    /\ UNCHANGED <<g_dialect, g_maxRetries, g_i, g_result, g_returned, g_log>>
    /\ UNCHANGED <<turnVars, dspyVars, extractVars, validateVars, quotaVars, concVars, webVars>>

\* one iteration of the retry loop
generate_retry ==
    /\ g_pc = "loop"
    /\ LoopContinues(g_i, g_maxRetries)
    /\ \E code \in CodesOf(g_dialect) :
         LET fb == get_feedback(g_result.validation_result)
             r == forward(g_dialect, code, fb) IN
         /\ g_result' = r
         /\ g_log' = Append(g_log, [feedback |-> fb,
                                    intent |-> enhanced_intent(fb), result |-> r])
         /\ g_calls' = g_calls + 1
         /\ IF r.is_valid
            THEN g_pc' = "returned" /\ g_returned' = r /\ g_i' = g_i
            ELSE g_pc' = "loop" /\ g_returned' = g_returned /\ g_i' = g_i + 1
    /\ UNCHANGED <<g_dialect, g_maxRetries>>
    /\ UNCHANGED <<turnVars, dspyVars, extractVars, validateVars, quotaVars, concVars, webVars>>

\* the predictor call of a retry raises
generate_retry_raises ==
    /\ g_pc = "loop"
    /\ LoopContinues(g_i, g_maxRetries)
    /\ g_pc' = "raised"
    /\ g_calls' = g_calls + 1
    /\ UNCHANGED <<g_dialect, g_maxRetries, g_i, g_result, g_returned, g_log>>
    /\ UNCHANGED <<turnVars, dspyVars, extractVars, validateVars, quotaVars, concVars, webVars>>

\* the loop is exhausted: return the last result even if invalid
generate_exhausted ==
    /\ g_pc = "loop"
    /\ ~LoopContinues(g_i, g_maxRetries)
    /\ g_pc' = "returned"
    /\ g_returned' = g_result
    /\ UNCHANGED <<g_dialect, g_maxRetries, g_i, g_calls, g_result, g_log>>
    /\ UNCHANGED <<turnVars, dspyVars, extractVars, validateVars, quotaVars, concVars, webVars>>

generate_with_retry ==
    \/ generate_first_attempt
    \/ generate_first_attempt_raises
    \/ generate_retry
    \/ generate_retry_raises
    \/ generate_exhausted

GenIdle ==
    /\ g_pc = "idle" /\ g_dialect = "python_diagrams" /\ g_maxRetries = 0
    /\ g_i = 0 /\ g_calls = 0 /\ g_result = None /\ g_returned = None
    /\ g_log = <<>>

-----------------------------------------------------------------------------
(* previous_history_json, by the shape of the string:                       *)
(*   "None"            no history argument                                  *)
(*   "empty_str"       ""                                                   *)
(*   "not_json"        text that json.loads rejects                         *)
(*   "json_falsy"      JSON for an empty list/object, 0 or null             *)
(*   "json_number"     JSON for a non-zero number or true                   *)
(*   "json_list_of_scalars"  JSON such as [1, 2]                            *)
(*   "json_string"     JSON for a non-empty string                          *)
(*   "json_object"     JSON for a non-empty object, e.g. {"messages": [..]} *)
(*   "json_list_of_dicts"    JSON such as [{"role": .., "content": ..}]     *)
HistoryInputs ==
    {"None", "empty_str", "not_json", "json_falsy", "json_number",
     "json_list_of_scalars", "json_string", "json_object", "json_list_of_dicts"}

\* `if previous_history_json:` / `if not history_json:`
HistoryGiven(h) == h \notin {"None", "empty_str"}

\* utils.format_conversation_history: only JSONDecodeError and TypeError are caught;
\* entry.get on an entry that is no dict raises AttributeError
format_conversation_history(h) ==
    IF ~HistoryGiven(h) THEN [raised |-> FALSE, text |-> ""]
    ELSE IF h = "not_json" THEN [raised |-> FALSE, text |-> ""]       \* JSONDecodeError
    ELSE IF h = "json_falsy" THEN [raised |-> FALSE, text |-> ""]     \* if not history
    ELSE IF h = "json_number" THEN [raised |-> FALSE, text |-> ""]    \* TypeError: not iterable
    ELSE IF h \in {"json_list_of_scalars", "json_string", "json_object"}
         THEN [raised |-> TRUE, text |-> ""]                          \* AttributeError
    ELSE [raised |-> FALSE, text |-> "formatted"]

\* fast_agent's from_json: what the deserialiser can do with the string.  Only a JSON
\* object or a JSON list of objects can be a serialized message history; whether a
\* given one is a history is not decided here.
from_json_outcomes(h) ==
    IF h \in {"json_object", "json_list_of_dicts"} THEN {"ok", "raise"} ELSE {"raise"}

\* the try/except around from_json: start fresh on error
load_history(h, outcome) ==
    IF ~HistoryGiven(h) THEN "fresh"
    ELSE IF outcome = "ok" THEN "loaded"
    ELSE "fresh_after_error"

-----------------------------------------------------------------------------
(* Tool results.  The text of a tool result, by what the extraction reads   *)
(* of it, tagged with the id of the call that produced it:                  *)
(*   "error_text"     starts with "Error"                                   *)
(*   "plain_text"     other text that json.loads rejects                    *)
(*   "json_obj_uri"   JSON object with a "uri" key                          *)
(*   "json_obj_nouri" JSON object without one, e.g. {"status": "completed"} *)
(*   "json_str_uri"   JSON string literal whose text contains "uri"         *)
(*   "json_scalar"    JSON number, true, false or null                      *)
ContentKinds ==
    {"error_text", "plain_text", "json_obj_uri", "json_obj_nouri", "json_str_uri",
     "json_scalar"}

Content(kind, id) == [kind |-> kind, id |-> id]

-----------------------------------------------------------------------------
(* The turn of core/agent_orchestrator.py                                  *)

\* RouterResult.tool_choice: Literal["python_diagrams", "mermaid", "clarify"]
RouterChoices == {"python_diagrams", "mermaid", "clarify"}

\* what the router's predictor can answer for tool_choice; "Mermaid diagram" stands
\* for any text outside the Literal
RouterAnswers == RouterChoices \cup {"Mermaid diagram"}

\* the clarification_question the predictor answers: a question, or nothing
QuestionAnswers == {"question from the model", ""}

DefaultQuestion == "Please clarify your request"

\* `if routing.tool_choice == "python_diagrams": ... else:  # mermaid`
tool_of_choice(choice) ==
    IF choice = "python_diagrams" THEN "draw_technical_diagram" ELSE "draw_mermaid"

dialect_of_tool(tool) ==
    IF tool = "draw_technical_diagram" THEN "python_diagrams" ELSE "mermaid"

\* conversation_context = format_conversation_history(previous_history_json)
core_format_history ==
    /\ impl = "core" /\ t_pc = "start"
    /\ LET r == format_conversation_history(t_hist) IN
         IF r.raised
         THEN /\ t_pc' = "done"
              /\ t_outcome' = Raised("AttributeError in format_conversation_history")
              /\ t_context' = t_context
         ELSE /\ t_pc' = "route"
              /\ t_context' = r.text
              /\ t_outcome' = t_outcome
    /\ UNCHANGED <<impl, t_hist, t_loaded, t_label, t_route, t_question, t_toolCalls>>
    /\ UNCHANGED <<genVars, dspyVars, extractVars, validateVars, quotaVars, concVars, webVars>>

\* routing = router(...): the predictor answered; RouterResult validates tool_choice;
\* clarify raises ClarificationNeeded, anything else starts the generator
core_route ==
    /\ impl = "core" /\ t_pc = "route"
    /\ \E answer \in RouterAnswers, q \in QuestionAnswers :
         /\ t_label' = answer
         /\ IF answer \notin RouterChoices
            THEN \* pydantic rejects the value: RouterResult(...) raises
                 /\ t_pc' = "done"
                 /\ t_outcome' = Raised("ValidationError")
                 /\ UNCHANGED <<t_route, t_question, genVars>>
            ELSE IF answer = "clarify"
            THEN /\ t_route' = "clarify"
                 /\ t_question' = q
                 /\ t_pc' = "done"
                 /\ t_outcome' = [kind |-> "ClarificationNeeded",
                                  question |-> IF q # "" THEN q ELSE DefaultQuestion]
                 /\ UNCHANGED genVars
            ELSE /\ t_route' = tool_of_choice(answer)
                 /\ t_question' = t_question
                 /\ t_pc' = "generate"
                 /\ t_outcome' = t_outcome
                 /\ g_pc' = "called"
                 /\ g_dialect' = dialect_of_tool(tool_of_choice(answer))
                 /\ g_maxRetries' = OrchestratorMaxRetries
                 /\ UNCHANGED <<g_i, g_calls, g_result, g_returned, g_log>>
    /\ UNCHANGED <<impl, t_hist, t_context, t_loaded, t_toolCalls>>
    /\ UNCHANGED <<dspyVars, extractVars, validateVars, quotaVars, concVars, webVars>>

\* the router's predictor call raises: nothing catches it
core_route_raises ==
    /\ impl = "core" /\ t_pc = "route"
    /\ t_pc' = "done"
    /\ t_outcome' = Raised("RouterCallFailed")
    /\ UNCHANGED <<impl, t_hist, t_context, t_loaded, t_label, t_route, t_question,
                   t_toolCalls>>
    /\ UNCHANGED <<genVars, dspyVars, extractVars, validateVars, quotaVars, concVars, webVars>>

\* generate_with_retry returned: `if not generation.is_valid: raise CodeGenerationError`
core_check_generation ==
    /\ impl = "core" /\ t_pc = "generate" /\ g_pc = "returned"
    /\ IF ~g_returned.is_valid
       THEN /\ t_pc' = "done"
            /\ t_outcome' = [kind |-> "CodeGenerationError",
                             validation_errors |-> g_returned.validation_result.errors]
       ELSE /\ t_pc' = "tool"
            /\ t_outcome' = t_outcome
    /\ UNCHANGED <<impl, t_hist, t_context, t_loaded, t_label, t_route, t_question,
                   t_toolCalls>>
    /\ UNCHANGED <<genVars, dspyVars, extractVars, validateVars, quotaVars, concVars, webVars>>

\* generate_with_retry raised: agent() has no handler around it
core_generation_raised ==
    /\ impl = "core" /\ t_pc = "generate" /\ g_pc = "raised"
    /\ t_pc' = "done"
    /\ t_outcome' = Raised("GeneratorCallFailed")
    /\ UNCHANGED <<impl, t_hist, t_context, t_loaded, t_label, t_route, t_question,
                   t_toolCalls>>
    /\ UNCHANGED <<genVars, dspyVars, extractVars, validateVars, quotaVars, concVars, webVars>>

\* Step 3: load the history (fresh on error), have the tool called with the generated
\* code, read the result; every exception becomes MCPToolError
core_call_tool ==
    /\ impl = "core" /\ t_pc = "tool"
    /\ \E loaded \in from_json_outcomes(t_hist), kind \in ContentKinds \cup {"raise"} :
         /\ t_loaded' = load_history(t_hist, loaded)
         /\ t_toolCalls' = Append(t_toolCalls,
                [id |-> <<"call", 1>>, tool |-> t_route, code |-> g_returned.code,
                 phase |-> "tool", failed |-> (kind = "raise")])
         /\ t_outcome' = IF kind = "json_obj_uri"
                         THEN [kind |-> "AgentResult", from |-> <<"call", 1>>]
                         ELSE [kind |-> "MCPToolError"]
    /\ t_pc' = "done"
    /\ UNCHANGED <<impl, t_hist, t_context, t_label, t_route, t_question>>
    /\ UNCHANGED <<genVars, dspyVars, extractVars, validateVars, quotaVars, concVars, webVars>>

core_agent ==
    \/ core_format_history
    \/ core_route
    \/ core_route_raises
    \/ core_check_generation
    \/ core_generation_raised
    \/ core_call_tool

-----------------------------------------------------------------------------
(* The DiagramRouter of agent.py                                           *)

TechnicalKeywords == {"technical", "architecture", "cloud", "infrastructure", "system"}

MermaidKeywords == {"flow", "sequence", "flowchart", "process", "state", "class"}

FallbackKeywords == {"clarify", "error", "unknown", "cannot", "unable", "help"}

\* DiagramRouter.TOOL_ROUTING
TOOL_ROUTING ==
    [t \in {"draw_technical_diagram", "draw_mermaid", "fallback"} |->
        IF t = "draw_technical_diagram" THEN TechnicalKeywords
        ELSE IF t = "draw_mermaid" THEN MermaidKeywords
        ELSE FallbackKeywords]

all_keywords == UNION {TOOL_ROUTING[t] : t \in DOMAIN TOOL_ROUTING}

\* self.keyword_to_tool, as built by __init__
keyword_to_tool ==
    [k \in all_keywords |-> CHOOSE t \in DOMAIN TOOL_ROUTING : k \in TOOL_ROUTING[t]]

\* what the classifier can answer for diagram_type: keywords as listed, keywords in
\* another letter case, and text that is no keyword
ClassifierAnswers == {"technical", "CLOUD", "flow", "State", "unknown", "Help", "sketch"}

\* str.lower on the answers above
lower(label) ==
    IF label = "CLOUD" THEN "cloud"
    ELSE IF label = "State" THEN "state"
    ELSE IF label = "Help" THEN "help"
    ELSE label

route_label_DefaultMermaid(label) ==
    LET diagram_type == lower(label)
    IN  IF diagram_type \in DOMAIN keyword_to_tool
        THEN keyword_to_tool[diagram_type]
        ELSE "draw_mermaid"

\* DiagramRouter.forward: diagram_type.lower(), keyword_to_tool.get(.., "fallback")
route_label(label) ==
    LET diagram_type == lower(label)
    IN  IF diagram_type \in DOMAIN keyword_to_tool
        THEN keyword_to_tool[diagram_type]
        ELSE "fallback"

fallback_tools_WithRenderTool == {"draw_mermaid"}

\* _create_dspy_config: the tools of the fallback module
fallback_tools == {}

\* the tools of the module a request is routed to
tools_of_route(route) == IF route = "fallback" THEN fallback_tools ELSE {route}

-----------------------------------------------------------------------------
(* Extraction of the turn's result                                         *)

\* json.loads of a tool result text, then `"uri" in result_json`:
\*   "skip"  JSONDecodeError, or a value without "uri": the scan goes on
\*   "hit"   the membership test is true: the value is returned
\*   "raise" the value supports no membership test: TypeError, which is not caught
uri_test(content) ==
    IF content.kind = "plain_text" THEN "skip"
    ELSE IF content.kind = "json_obj_nouri" THEN "skip"
    ELSE IF content.kind = "json_obj_uri" THEN "hit"
    ELSE IF content.kind = "json_str_uri" THEN "hit"
    ELSE IF content.kind = "json_scalar" THEN "raise"
    ELSE "skip"

RECURSIVE scan(_, _)
\* the for-loop of _extract_tool_result_from_executed, from entry k on
scan(results, k) ==
    IF k > Len(results) THEN [raised |-> FALSE, value |-> None]
    ELSE IF results[k].content.kind = "error_text"         \* startswith("Error")
         THEN scan(results, k + 1)
    ELSE IF uri_test(results[k].content) = "hit"
         THEN [raised |-> FALSE, value |-> results[k].content]
    ELSE IF uri_test(results[k].content) = "raise"
         THEN [raised |-> TRUE, value |-> None]
    ELSE scan(results, k + 1)

extract_tool_result_from_executed(tool_results) == scan(tool_results, 1)

\* what extract_last_tool_result returns when no message holds a uri: `{}`
EmptyDict == [kind |-> "empty_dict"]

RECURSIVE scan_reversed(_, _)
\* the for-loop of extract_last_tool_result over reversed(self.message_history), from
\* message k down: json.loads of the text of a message with tool_results, then
\* `"uri" in parsed`; only JSONDecodeError is caught
scan_reversed(message_history, k) ==
    IF k < 1 THEN [raised |-> FALSE, value |-> EmptyDict]
    ELSE IF message_history[k].kind # "tool_result"
         THEN scan_reversed(message_history, k - 1)
    ELSE IF uri_test(message_history[k].content) = "hit"
         THEN [raised |-> FALSE, value |-> message_history[k].content]
    ELSE IF uri_test(message_history[k].content) = "raise"
         THEN [raised |-> TRUE, value |-> EmptyDict]
    ELSE scan_reversed(message_history, k - 1)

extract_last_tool_result(message_history) ==
    scan_reversed(message_history, Len(message_history))

-----------------------------------------------------------------------------
(* The turn of agent.py, on a DspyAgent                                    *)

\* the history a successfully loaded previous_history_json holds: one earlier turn
PriorMessages ==
    << [role |-> "user", kind |-> "text", id |-> <<>>, content |-> None],
       [role |-> "assistant", kind |-> "tool_call", id |-> <<"draw_technical_diagram", 0>>,
        content |-> None],
       [role |-> "user", kind |-> "tool_result", id |-> <<"draw_technical_diagram", 0>>,
        content |-> Content("json_obj_uri", <<"draw_technical_diagram", 0>>)] >>

\* the code a ReAct specialist can pass to its tool: whatever the model wrote
ReActCodes(dialect) ==
    IF dialect = "python_diagrams"
    THEN { PyCode(FALSE, {"import "}, FALSE, FALSE, TRUE, TRUE),
           PyCode(FALSE, {}, FALSE, FALSE, TRUE, TRUE) }
    ELSE { MermaidCode(FALSE, "none", 2, TRUE, TRUE, FALSE, FALSE, FALSE),
           MermaidCode(FALSE, "flowchart", 2, TRUE, TRUE, FALSE, FALSE, FALSE) }

\* call_id = f"{tool_name}_{call_counter[0]}"
call_id(tool, n) ==
    IF tool = "draw_technical_diagram"
    THEN <<"draw_technical_diagram", n>>
    ELSE <<"draw_mermaid", n>>

\* the entry points that run the DiagramRouter main module
MainModuleCallers == {"dspy", "generate"}

\* where the caller of main_module goes on: agent() resolves the tool calls,
\* generate_impl saves the trace
after_main_module(caller) == IF caller = "dspy" THEN "resolve" ELSE "trace"

\* _serialize_history: the messages of the aggregator's message_history, or "[]" when
\* the aggregator has no such attribute
serialize_history(aggregator_history) ==
    IF ~aggregator_history.set THEN <<>> ELSE aggregator_history.messages

\* `dspy_agent._aggregator.message_history = previous_messages` (fresh on error), then
\* format the history string
dspy_load_history ==
    /\ impl = "dspy" /\ t_pc = "start"
    /\ \E loaded \in from_json_outcomes(t_hist) :
         /\ t_loaded' = load_history(t_hist, loaded)
         /\ d_aggHistory' = IF load_history(t_hist, loaded) = "loaded"
                            THEN [set |-> TRUE, messages |-> PriorMessages]
                            ELSE d_aggHistory
    /\ LET r == format_conversation_history(t_hist) IN
         IF r.raised
         THEN /\ t_pc' = "done"
              /\ t_outcome' = Raised("AttributeError in format_conversation_history")
              /\ t_context' = t_context
         ELSE /\ t_pc' = "route"
              /\ t_context' = r.text
              /\ t_outcome' = t_outcome
    /\ UNCHANGED <<impl, t_hist, t_label, t_route, t_question, t_toolCalls>>
    /\ UNCHANGED <<d_counter, d_collected, d_observed, d_history, d_historyOut,
                   d_traces, d_toolResults, d_extracted>>
    /\ UNCHANGED <<genVars, extractVars, validateVars, quotaVars, concVars, webVars>>

\* DiagramRouter.forward: classify, map the label to a tool name, run that agent
dspy_classify ==
    /\ impl \in MainModuleCallers /\ t_pc = "route"
    /\ \E label \in ClassifierAnswers :
         /\ t_label' = label
         /\ t_route' = route_label(label)
         /\ t_pc' = IF route_label(label) = "fallback" THEN "fallback" ELSE "specialist"
    /\ UNCHANGED <<impl, t_hist, t_context, t_loaded, t_question, t_toolCalls, t_outcome>>
    /\ UNCHANGED <<genVars, dspyVars, extractVars, validateVars, quotaVars, concVars, webVars>>

\* the classifier call raises: neither forward nor agent() catches it
dspy_classify_raises ==
    /\ impl \in MainModuleCallers /\ t_pc = "route"
    /\ t_pc' = "done"
    /\ t_outcome' = Raised("RouterCallFailed")
    /\ UNCHANGED <<impl, t_hist, t_context, t_loaded, t_label, t_route, t_question,
                   t_toolCalls>>
    /\ UNCHANGED <<genVars, dspyVars, extractVars, validateVars, quotaVars, concVars, webVars>>

\* a wrapper that records the call message before the call is made
sync_wrapper_raises_CallRecorded ==
    /\ impl \in MainModuleCallers /\ t_pc \in {"specialist", "fallback"}
    /\ Len(d_observed) < MaxToolCalls
    /\ \E tool \in tools_of_route(t_route) :
       \E code \in ReActCodes(dialect_of_tool(tool)) :
         LET id == call_id(tool, d_counter[tool]) IN
         /\ d_counter' = [d_counter EXCEPT ![tool] = @ + 1]
         /\ t_toolCalls' = Append(t_toolCalls,
                [id |-> id, tool |-> tool, code |-> code, phase |-> t_pc,
                 failed |-> TRUE])
         /\ d_history' = Append(d_history,
                [role |-> "assistant", kind |-> "tool_call", id |-> id, content |-> None])
         /\ d_observed' = Append(d_observed, [kind |-> "exception", id |-> id])
    /\ UNCHANGED <<impl, t_pc, t_hist, t_context, t_loaded, t_label, t_route, t_question,
                   t_outcome>>
    /\ UNCHANGED <<d_collected, d_aggHistory, d_historyOut, d_traces,
                   d_toolResults, d_extracted>>
    /\ UNCHANGED <<genVars, extractVars, validateVars, quotaVars, concVars, webVars>>

\* sync_wrapper as invoked by the routed module: asyncio.run(_execute_and_track(..)).
\* The MCP call is made here; its result is appended to the history, stored in
\* _tool_results_collected and returned as text.
sync_wrapper ==
    /\ impl \in MainModuleCallers /\ t_pc \in {"specialist", "fallback"}
    /\ Len(d_observed) < MaxToolCalls
    /\ \E tool \in tools_of_route(t_route) :
       \E code \in ReActCodes(dialect_of_tool(tool)), kind \in ContentKinds :
         LET id == call_id(tool, d_counter[tool])
             content == Content(kind, id)
         IN
         /\ d_counter' = [d_counter EXCEPT ![tool] = @ + 1]
         /\ t_toolCalls' = Append(t_toolCalls,
                [id |-> id, tool |-> tool, code |-> code, phase |-> t_pc,
                 failed |-> FALSE])
         /\ d_history' = d_history \o
                << [role |-> "assistant", kind |-> "tool_call", id |-> id,
                    content |-> None],
                   [role |-> "user", kind |-> "tool_result", id |-> id,
                    content |-> content] >>
         /\ d_collected' = Append(d_collected, [id |-> id, content |-> content])
         /\ d_observed' = Append(d_observed, content)
    /\ UNCHANGED <<impl, t_pc, t_hist, t_context, t_loaded, t_label, t_route, t_question,
                   t_outcome>>
    /\ UNCHANGED <<d_aggHistory, d_historyOut, d_traces, d_toolResults, d_extracted>>
    /\ UNCHANGED <<genVars, extractVars, validateVars, quotaVars, concVars, webVars>>

\* self.call_tool raises (transport error, timeout): _execute_and_track has no handler,
\* so nothing is appended or stored and the exception leaves sync_wrapper; the ReAct
\* loop that invoked the tool takes it as its observation
sync_wrapper_raises ==
    /\ impl \in MainModuleCallers /\ t_pc \in {"specialist", "fallback"}
    /\ Len(d_observed) < MaxToolCalls
    /\ \E tool \in tools_of_route(t_route) :
       \E code \in ReActCodes(dialect_of_tool(tool)) :
         LET id == call_id(tool, d_counter[tool]) IN
         /\ d_counter' = [d_counter EXCEPT ![tool] = @ + 1]
         /\ t_toolCalls' = Append(t_toolCalls,
                [id |-> id, tool |-> tool, code |-> code, phase |-> t_pc,
                 failed |-> TRUE])
         /\ d_observed' = Append(d_observed, [kind |-> "exception", id |-> id])
    /\ UNCHANGED <<impl, t_pc, t_hist, t_context, t_loaded, t_label, t_route, t_question,
                   t_outcome>>
    /\ UNCHANGED <<d_collected, d_history, d_aggHistory, d_historyOut, d_traces,
                   d_toolResults, d_extracted>>
    /\ UNCHANGED <<genVars, extractVars, validateVars, quotaVars, concVars, webVars>>

\* the ReAct specialist finishes its reasoning
dspy_specialist_returns ==
    /\ impl \in MainModuleCallers /\ t_pc = "specialist"
    /\ t_pc' = after_main_module(impl)
    /\ UNCHANGED <<impl, t_hist, t_context, t_loaded, t_label, t_route, t_question,
                   t_toolCalls, t_outcome>>
    /\ UNCHANGED <<genVars, dspyVars, extractVars, validateVars, quotaVars, concVars, webVars>>

\* FallbackAgent.forward: the responder answers
dspy_fallback_returns ==
    /\ impl \in MainModuleCallers /\ t_pc = "fallback"
    /\ \E q \in QuestionAnswers : t_question' = q
    /\ t_pc' = after_main_module(impl)
    /\ UNCHANGED <<impl, t_hist, t_context, t_loaded, t_label, t_route, t_toolCalls,
                   t_outcome>>
    /\ UNCHANGED <<genVars, dspyVars, extractVars, validateVars, quotaVars, concVars, webVars>>

\* tool_results = await dspy_agent.execute_pending_tools(): the results of the turn's
\* tool calls, keyed by call id.  No call is ever left pending by sync_wrapper.
execute_pending_tools ==
    /\ impl = "dspy" /\ t_pc = "resolve"
    /\ d_toolResults' = d_collected
    /\ t_pc' = "extract"
    /\ UNCHANGED <<impl, t_hist, t_context, t_loaded, t_label, t_route, t_question,
                   t_toolCalls, t_outcome>>
    /\ UNCHANGED <<d_counter, d_collected, d_observed, d_history, d_aggHistory,
                   d_historyOut, d_traces, d_extracted>>
    /\ UNCHANGED <<genVars, extractVars, validateVars, quotaVars, concVars, webVars>>

\* tool_result = _extract_tool_result_from_executed(tool_results), then the result:
\* AgentResult when one was found, ClarificationNeeded otherwise
dspy_extract ==
    /\ impl = "dspy" /\ t_pc = "extract"
    /\ LET r == extract_tool_result_from_executed(d_toolResults) IN
         /\ d_extracted' = r.value
         /\ d_historyOut' =
              IF ~r.raised /\ r.value # None /\ r.value.kind = "json_obj_uri"
              THEN [returned |-> TRUE, messages |-> serialize_history(d_aggHistory)]
              ELSE d_historyOut
         /\ t_outcome' =
              IF r.raised THEN Raised("TypeError in _extract_tool_result_from_executed")
              ELSE IF r.value = None
              THEN [kind |-> "ClarificationNeeded",
                    question |-> IF t_route = "fallback" THEN t_question
                                 ELSE "str(result)"]
              ELSE IF r.value.kind = "json_obj_uri"
              THEN [kind |-> "AgentResult", from |-> r.value.id]
              ELSE Raised("AttributeError in tool_result.get")    \* a str has no .get
    /\ t_pc' = "done"
    /\ UNCHANGED <<impl, t_hist, t_context, t_loaded, t_label, t_route, t_question,
                   t_toolCalls>>
    /\ UNCHANGED <<d_counter, d_collected, d_observed, d_history, d_aggHistory,
                   d_traces, d_toolResults>>
    /\ UNCHANGED <<genVars, extractVars, validateVars, quotaVars, concVars, webVars>>

\* generate_impl steps 1-4: format self.message_history, reset the collector
generate_impl_start ==
    /\ impl = "generate" /\ t_pc = "start"
    /\ t_context' = "formatted"
    /\ d_collected' = <<>>
    /\ t_pc' = "route"
    /\ UNCHANGED <<impl, t_hist, t_loaded, t_label, t_route, t_question, t_toolCalls,
                   t_outcome>>
    /\ UNCHANGED <<d_counter, d_observed, d_history, d_aggHistory, d_historyOut, d_traces,
                   d_toolResults, d_extracted>>
    /\ UNCHANGED <<genVars, extractVars, validateVars, quotaVars, concVars, webVars>>

\* trace_id = str(uuid.uuid4())
new_trace_id(traces) == Cardinality(traces) + 1

\* generate_impl steps 6-7: _save_dspy_trace writes the trace file, then the response
\* is built
generate_impl_save_trace ==
    /\ impl = "generate" /\ t_pc = "trace"
    /\ d_traces' = d_traces \cup
           {[trace_id |-> new_trace_id(d_traces), tool_results |-> d_collected]}
    /\ t_outcome' = [kind |-> "response",
                      text |-> IF t_route = "fallback" /\ t_question # ""
                               THEN t_question ELSE "str(prediction)"]
    /\ t_pc' = "done"
    /\ UNCHANGED <<impl, t_hist, t_context, t_loaded, t_label, t_route, t_question,
                   t_toolCalls>>
    /\ UNCHANGED <<d_counter, d_collected, d_observed, d_history, d_aggHistory,
                   d_historyOut, d_toolResults, d_extracted>>
    /\ UNCHANGED <<genVars, extractVars, validateVars, quotaVars, concVars, webVars>>

\* TRACES_DIR.mkdir or trace_file.write_text raises OSError (disk full, read-only file
\* system): neither _save_dspy_trace nor generate_impl catches it
generate_impl_save_trace_raises ==
    /\ impl = "generate" /\ t_pc = "trace"
    /\ t_outcome' = Raised("OSError in _save_dspy_trace")
    /\ t_pc' = "done"
    /\ UNCHANGED <<impl, t_hist, t_context, t_loaded, t_label, t_route, t_question,
                   t_toolCalls>>
    /\ UNCHANGED <<genVars, dspyVars, extractVars, validateVars, quotaVars, concVars, webVars>>

\* the caller reads the turn's diagram with extract_last_tool_result()
generate_extract_last ==
    /\ impl = "generate" /\ t_pc = "done" /\ t_outcome.kind = "response"
    /\ LET r == extract_last_tool_result(d_history) IN
         d_extracted' = IF r.raised THEN Raised("TypeError in extract_last_tool_result")
                        ELSE r.value
    /\ t_pc' = "extracted"
    /\ UNCHANGED <<impl, t_hist, t_context, t_loaded, t_label, t_route, t_question,
                   t_toolCalls, t_outcome>>
    /\ UNCHANGED <<d_counter, d_collected, d_observed, d_history, d_aggHistory,
                   d_historyOut, d_traces, d_toolResults>>
    /\ UNCHANGED <<genVars, extractVars, validateVars, quotaVars, concVars, webVars>>

generate_impl ==
    \/ generate_impl_start
    \/ generate_impl_save_trace
    \/ generate_impl_save_trace_raises
    \/ generate_extract_last

dspy_agent ==
    \/ dspy_load_history
    \/ dspy_classify
    \/ dspy_classify_raises
    \/ sync_wrapper
    \/ sync_wrapper_raises
    \/ dspy_specialist_returns
    \/ dspy_fallback_returns
    \/ execute_pending_tools
    \/ dspy_extract

-----------------------------------------------------------------------------
(* _extract_tool_result_from_executed applied to one dictionary            *)

x_extract_returns ==
    /\ x_pc = "input"
    /\ ~extract_tool_result_from_executed(x_results).raised
    /\ x_out' = extract_tool_result_from_executed(x_results).value
    /\ x_pc' = "returned"
    /\ UNCHANGED <<x_results, genVars, turnVars, dspyVars, validateVars, quotaVars, concVars, webVars>>

x_extract_raises ==
    /\ x_pc = "input"
    /\ extract_tool_result_from_executed(x_results).raised
    /\ x_pc' = "raised"
    /\ UNCHANGED <<x_out, x_results, genVars, turnVars, dspyVars, validateVars, quotaVars, concVars, webVars>>

-----------------------------------------------------------------------------
(* The diagram endpoints of django_monolith/diagrams_assistant/views.py    *)

\* the requests in flight, numbered in arrival order
Requests == {1, 2}

\* the Diagram row that exists before the requests arrive, and an id of no row
ExistingDiagram == "d0"

MissingDiagram == "d_missing"

\* the Diagram row a create request makes (uuid4 primary key)
NewDiagram(r) == IF r = 1 THEN "d1" ELSE "d2"

\* agent_history of the existing row: the turns of the conversation so far
StoredTurns == <<"turn_0">>

\* the turn a request adds to its conversation
TurnOf(r) == IF r = 1 THEN "turn_1" ELSE "turn_2"

NoResponse == [status |-> 0]

NoAgentCall == [kind |-> "not_called"]

\* how `asyncio.run(agent(text, previous_history_json=prev))` can end: an AgentResult
\* whose history_json is the history after the turn (core/agent_orchestrator.py
\* serializes agent_runner.message_history after sending the turn's message; agent.py
\* serializes the aggregator's history, which lacks the turn), or one of the exceptions
\* agent() raises.  AgentResult.media_uri is a required str set from the tool's uri.
AgentOutcomes(prev, r) ==
    { [kind |-> "AgentResult", media_uri |-> "gs://uri", history |-> prev \o <<TurnOf(r)>>],
      [kind |-> "AgentResult", media_uri |-> "gs://uri", history |-> prev],
      [kind |-> "ClarificationNeeded", media_uri |-> "", history |-> prev],
      [kind |-> "CodeGenerationError", media_uri |-> "", history |-> prev],
      [kind |-> "MCPToolError", media_uri |-> "", history |-> prev] }

\* the response to a request whose handler let an exception escape
ServerError == [status |-> 500]

\* DiagramListCreate.create up to the agent call: 400 without text, else run the agent
\* on an empty history
create_call_agent(r) ==
    /\ w_pc[r] = "new" /\ w_view[r] = "create"
    /\ IF w_text[r] = ""
       THEN /\ w_pc' = [w_pc EXCEPT ![r] = "done"]
            /\ w_resp' = [w_resp EXCEPT ![r] = [status |-> 400]]
            /\ UNCHANGED w_agent
       ELSE /\ \E out \in AgentOutcomes(<<>>, r) : w_agent' = [w_agent EXCEPT ![r] = out]
            /\ w_pc' = [w_pc EXCEPT ![r] = "agent_returned"]
            /\ UNCHANGED w_resp
    /\ UNCHANGED <<w_view, w_text, w_target, w_prev, db_diagrams, db_history, db_versions,
                   db_chat, db_genlog>>
    /\ UNCHANGED <<genVars, turnVars, dspyVars, extractVars, validateVars, quotaVars, concVars>>

\* DiagramListCreate.create after the agent call
create_respond(r) ==
    /\ w_pc[r] = "agent_returned" /\ w_view[r] = "create"
    /\ w_pc' = [w_pc EXCEPT ![r] = "done"]
    /\ IF w_agent[r].kind # "AgentResult"
       THEN \* the exception leaves create(): nothing is stored
            /\ w_resp' = [w_resp EXCEPT ![r] = ServerError]
            /\ UNCHANGED <<db_diagrams, db_history, db_versions, db_chat, db_genlog>>
       ELSE IF w_agent[r].media_uri = ""
       THEN /\ w_resp' = [w_resp EXCEPT ![r] =
                             [status |-> 200, clarification_needed |-> TRUE]]
            /\ UNCHANGED <<db_diagrams, db_history, db_versions, db_chat, db_genlog>>
       ELSE /\ db_diagrams' = db_diagrams \cup {NewDiagram(r)}
            /\ db_history' = [d \in db_diagrams \cup {NewDiagram(r)} |->
                                 IF d = NewDiagram(r) THEN w_agent[r].history
                                 ELSE db_history[d]]
            /\ db_versions' = db_versions \cup {[diagram |-> NewDiagram(r), request |-> r]}
            /\ db_chat' = db_chat \o
                   << [diagram |-> NewDiagram(r), role |-> "user", request |-> r],
                      [diagram |-> NewDiagram(r), role |-> "assistant", request |-> r] >>
            /\ db_genlog' = db_genlog \cup {r}
            /\ w_resp' = [w_resp EXCEPT ![r] = [status |-> 201]]
    /\ UNCHANGED <<w_view, w_text, w_target, w_prev, w_agent>>
    /\ UNCHANGED <<genVars, turnVars, dspyVars, extractVars, validateVars, quotaVars, concVars>>

\* DiagramVersionCreate.post up to the agent call: 404 for an unknown diagram, 400
\* without text; else store the user's chat message and read the row's agent_history
version_read(r) ==
    /\ w_pc[r] = "new" /\ w_view[r] = "version"
    /\ \A q \in Requests : q < r => w_pc[q] # "new"      \* arrival order
    /\ IF w_target[r] \notin db_diagrams
       THEN /\ w_pc' = [w_pc EXCEPT ![r] = "done"]
            /\ w_resp' = [w_resp EXCEPT ![r] = [status |-> 404]]
            /\ UNCHANGED <<w_prev, db_chat>>
       ELSE IF w_text[r] = ""
       THEN /\ w_pc' = [w_pc EXCEPT ![r] = "done"]
            /\ w_resp' = [w_resp EXCEPT ![r] = [status |-> 400]]
            /\ UNCHANGED <<w_prev, db_chat>>
       ELSE /\ db_chat' = Append(db_chat,
                   [diagram |-> w_target[r], role |-> "user", request |-> r])
            /\ w_prev' = [w_prev EXCEPT ![r] = db_history[w_target[r]]]
            /\ w_pc' = [w_pc EXCEPT ![r] = "read"]
            /\ UNCHANGED w_resp
    /\ UNCHANGED <<w_view, w_text, w_target, w_agent, db_diagrams, db_history, db_versions,
                   db_genlog>>
    /\ UNCHANGED <<genVars, turnVars, dspyVars, extractVars, validateVars, quotaVars, concVars>>

\* agent_result = asyncio.run(agent(text, previous_history_json=previous_history))
version_call_agent(r) ==
    /\ w_pc[r] = "read" /\ w_view[r] = "version"
    /\ \E out \in AgentOutcomes(w_prev[r], r) : w_agent' = [w_agent EXCEPT ![r] = out]
    /\ w_pc' = [w_pc EXCEPT ![r] = "agent_returned"]
    /\ UNCHANGED <<w_view, w_text, w_target, w_prev, w_resp, db_diagrams, db_history,
                   db_versions, db_chat, db_genlog>>
    /\ UNCHANGED <<genVars, turnVars, dspyVars, extractVars, validateVars, quotaVars, concVars>>

\* DiagramVersionCreate.post after the agent call: store the returned history on the
\* row, then the version, the chat message and the generation log
version_respond(r) ==
    /\ w_pc[r] = "agent_returned" /\ w_view[r] = "version"
    /\ w_pc' = [w_pc EXCEPT ![r] = "done"]
    /\ IF w_agent[r].kind # "AgentResult"
       THEN /\ w_resp' = [w_resp EXCEPT ![r] = ServerError]
            /\ UNCHANGED <<db_history, db_versions, db_chat, db_genlog>>
       ELSE IF w_agent[r].media_uri = ""
       THEN /\ db_history' = [db_history EXCEPT ![w_target[r]] = w_agent[r].history]
            /\ w_resp' = [w_resp EXCEPT ![r] =
                             [status |-> 200, clarification_needed |-> TRUE]]
            /\ UNCHANGED <<db_versions, db_chat, db_genlog>>
       ELSE /\ db_history' = [db_history EXCEPT ![w_target[r]] = w_agent[r].history]
            /\ db_versions' = db_versions \cup {[diagram |-> w_target[r], request |-> r]}
            /\ db_chat' = Append(db_chat,
                   [diagram |-> w_target[r], role |-> "assistant", request |-> r])
            /\ db_genlog' = db_genlog \cup {r}
            /\ w_resp' = [w_resp EXCEPT ![r] = [status |-> 201]]
    /\ UNCHANGED <<w_view, w_text, w_target, w_prev, w_agent, db_diagrams>>
    /\ UNCHANGED <<genVars, turnVars, dspyVars, extractVars, validateVars, quotaVars, concVars>>

-----------------------------------------------------------------------------
(* Specifications                                                          *)

-----------------------------------------------------------------------------
(* The quota throttle (diagrams_assistant/throttles.py) and the generation *)
(* POSTs it guards (DiagramListCreate, DiagramVersionCreate).  Time is     *)
(* counted in days; day 0 is Thursday 2026-01-01, the date the quota tests *)
(* freeze, so day -1 is in the same week but the month before, and day -4  *)
(* in the week before.                                                     *)

Users == {"alice", "bob"}

LogDays == {-4, -1} \cup 0..MaxDay

UserQuota(quota_limit, period, is_unlimited) ==
    [quota_limit |-> quota_limit, period |-> period, is_unlimited |-> is_unlimited]

\* now.weekday(): Monday is 0
weekday(now) == (now + 3) % 7

\* now.day - 1, for the days of December 2025 and January 2026
days_since_first(now) == IF now >= 0 THEN now ELSE now + 31

get_period_start(period, now) ==
    IF period = "day" THEN now
    ELSE IF period = "week" THEN now - weekday(now)
    ELSE IF period = "month" THEN now - days_since_first(now)
    ELSE now

get_user_quota(user) == q_quota[user]

RECURSIVE SumOver(_, _)
SumOver(days, f) ==
    IF days = {} THEN 0
    ELSE LET d == CHOOSE x \in days : TRUE IN f[d] + SumOver(days \ {d}, f)

\* a count that does not filter on the user
get_usage_count_AllUsers(user, period_start) ==
    SumOver({d \in LogDays : d >= period_start},
            [d \in LogDays |-> q_log["alice"][d] + q_log["bob"][d]])

\* DiagramGenerationLog.objects.filter(user=user, created_at__gte=period_start).count()
get_usage_count(user, period_start) ==
    SumOver({d \in LogDays : d >= period_start}, q_log[user])

allow_request(user) ==
    LET quota == get_user_quota(user)
        quota_limit == IF quota # None THEN quota.quota_limit ELSE DEFAULT_QUOTA_LIMIT
        period == IF quota # None THEN quota.period ELSE DEFAULT_QUOTA_PERIOD
        period_start == get_period_start(period, q_now)
        usage_count == get_usage_count(user, period_start)
    IN  IF quota # None /\ quota.is_unlimited THEN TRUE
        ELSE ~(usage_count >= quota_limit)

\* APIView.initial -> check_throttles: Throttled (429) when allow_request is False
check_throttles(r) ==
    /\ q_pc[r] = "new"
    /\ IF allow_request(q_user[r])
       THEN /\ q_pc' = [q_pc EXCEPT ![r] = "allowed"]
            /\ UNCHANGED q_resp
       ELSE /\ q_pc' = [q_pc EXCEPT ![r] = "done"]
            /\ q_resp' = [q_resp EXCEPT ![r] = 429]
    /\ UNCHANGED <<q_now, q_quota, q_log, q_user>>
    /\ UNCHANGED <<genVars, turnVars, dspyVars, extractVars, validateVars, concVars, webVars>>

\* log_diagram_generation(user)
log_diagram_generation(user) ==
    q_log' = [q_log EXCEPT ![user][q_now] = @ + 1]

\* the handler: it ends without a generation (400, 404, the clarification answer,
\* an uncaught exception), or stores the diagram and logs the generation (201)
view_post(r) ==
    /\ q_pc[r] = "allowed"
    /\ q_pc' = [q_pc EXCEPT ![r] = "done"]
    /\ \E s \in {200, 201, 400, 404, 500} :
          /\ q_resp' = [q_resp EXCEPT ![r] = s]
          /\ IF s = 201 THEN log_diagram_generation(q_user[r]) ELSE UNCHANGED q_log
    /\ UNCHANGED <<q_now, q_quota, q_user>>
    /\ UNCHANGED <<genVars, turnVars, dspyVars, extractVars, validateVars, concVars, webVars>>

\* midnight passes
next_day ==
    /\ q_pc # [r \in Requests |-> "off"]
    /\ q_now < MaxDay
    /\ q_now' = q_now + 1
    /\ UNCHANGED <<q_quota, q_log, q_pc, q_user, q_resp>>
    /\ UNCHANGED <<genVars, turnVars, dspyVars, extractVars, validateVars, concVars, webVars>>

-----------------------------------------------------------------------------
(* Overlapping turns.  Every turn is one call of agent(), which builds its  *)
(* own DspyAgent; the collector and the call counter live on the instance.  *)
(* A turn runs without suspending from the reset of its collector to its    *)
(* return, except inside sync_wrapper: asyncio.run, re-entrant under        *)
(* nest_asyncio.apply(), spins the event loop until the tool call is done,  *)
(* and the loop runs whatever is ready meanwhile: the pending tool calls of *)
(* the turns below, and the task of another turn, which then runs nested.   *)

Turns == {1, 2, 3}

Instances == 1..Cardinality(Turns)

NoTrace == [saved |-> FALSE, tool_results |-> <<>>]

\* the turn whose code is executing: the innermost started turn
Running(t) == IF k_stack = <<>> THEN FALSE ELSE k_stack[Len(k_stack)] = t

\* the event loop is spinning: nothing has started, or the innermost turn waits in a call
LoopSpins ==
    IF k_stack = <<>> THEN TRUE
    ELSE k_pc[k_stack[Len(k_stack)]] \in {"in_call", "resolved"}

\* one agent built once and used by every turn
DspyAgent_Shared == CHOOSE i \in Instances : \A j \in Instances : i <= j

\* `DspyAgent(config=..., dspy_fast_agent_config=..., context=...)`: a new object
DspyAgent == 1 + Cardinality({t \in Turns : k_inst[t] # 0})

\* agent() builds its agent, whose __init__ and generate_impl both set
\* `self._tool_results_collected = {}`, and enters the main module
conc_turn_starts(t) ==
    /\ k_pc[t] = "new"
    /\ LoopSpins
    /\ k_inst' = [k_inst EXCEPT ![t] = DspyAgent]
    /\ k_collected' = [k_collected EXCEPT ![k_inst'[t]] = <<>>]
    /\ k_pc' = [k_pc EXCEPT ![t] = "main"]
    /\ k_stack' = Append(k_stack, t)
    /\ UNCHANGED <<k_counter, k_made, k_trace>>
    /\ UNCHANGED <<genVars, turnVars, dspyVars, extractVars, validateVars, quotaVars, webVars>>

\* sync_wrapper: the call id is taken, then asyncio.run waits for call_tool
conc_call_begins(t) ==
    /\ k_pc[t] = "main" /\ Running(t)
    /\ Cardinality(k_made[t]) < MaxToolCalls
    /\ k_made' = [k_made EXCEPT ![t] = @ \cup {call_id("draw_mermaid", k_counter[k_inst[t]])}]
    /\ k_counter' = [k_counter EXCEPT ![k_inst[t]] = @ + 1]
    /\ k_pc' = [k_pc EXCEPT ![t] = "in_call"]
    /\ UNCHANGED <<k_inst, k_stack, k_collected, k_trace>>
    /\ UNCHANGED <<genVars, turnVars, dspyVars, extractVars, validateVars, quotaVars, webVars>>

\* call_tool is done and _execute_and_track runs on:
\* `self._tool_results_collected[call_id] = result_text`
conc_call_resolves(t) ==
    /\ k_pc[t] = "in_call"
    /\ LoopSpins
    /\ \E id \in k_made[t] :
         /\ \A other \in k_made[t] : other[2] <= id[2]
         /\ k_collected' = [k_collected EXCEPT ![k_inst[t]] =
                                Append(@, [id |-> id, turn |-> t])]
    /\ k_pc' = [k_pc EXCEPT ![t] = "resolved"]
    /\ UNCHANGED <<k_inst, k_stack, k_counter, k_made, k_trace>>
    /\ UNCHANGED <<genVars, turnVars, dspyVars, extractVars, validateVars, quotaVars, webVars>>

\* asyncio.run returns to the module that called the tool
conc_call_returns(t) ==
    /\ k_pc[t] = "resolved" /\ Running(t)
    /\ k_pc' = [k_pc EXCEPT ![t] = "main"]
    /\ UNCHANGED <<k_inst, k_stack, k_counter, k_collected, k_made, k_trace>>
    /\ UNCHANGED <<genVars, turnVars, dspyVars, extractVars, validateVars, quotaVars, webVars>>

\* generate_impl steps 6-7: the trace takes "tool_results": self._tool_results_collected
conc_turn_ends(t) ==
    /\ k_pc[t] = "main" /\ Running(t)
    /\ k_trace' = [k_trace EXCEPT ![t] =
                      [saved |-> TRUE, tool_results |-> k_collected[k_inst[t]]]]
    /\ k_pc' = [k_pc EXCEPT ![t] = "done"]
    /\ k_stack' = SubSeq(k_stack, 1, Len(k_stack) - 1)
    /\ UNCHANGED <<k_inst, k_counter, k_collected, k_made>>
    /\ UNCHANGED <<genVars, turnVars, dspyVars, extractVars, validateVars, quotaVars, webVars>>

TurnOff ==
    /\ impl = "none" /\ t_pc = "off" /\ t_hist = "None" /\ t_context = ""
    /\ t_loaded = "fresh" /\ t_label = "" /\ t_route = "" /\ t_question = ""
    /\ t_toolCalls = <<>> /\ t_outcome = NoOutcome

\* a new DspyAgent whose message history is message_history
DspyWith(message_history) ==
    /\ d_counter = [t \in {"draw_technical_diagram", "draw_mermaid"} |-> 0]
    /\ d_collected = <<>> /\ d_observed = <<>> /\ d_history = message_history
    /\ d_aggHistory = [set |-> FALSE, messages |-> <<>>]
    /\ d_historyOut = [returned |-> FALSE, messages |-> <<>>]
    /\ d_traces = {}
    /\ d_toolResults = <<>> /\ d_extracted = None

DspyFresh == DspyWith(<<>>)

ExtractOff == x_pc = "off" /\ x_results = <<>> /\ x_out = None

ValidateOff == v_pc = "off" /\ v_dialect = "python_diagrams" /\ v_calls = <<>>

ConcOff ==
    /\ k_pc = [t \in Turns |-> "off"]
    /\ k_inst = [t \in Turns |-> 0]
    /\ k_stack = <<>>
    /\ k_counter = [i \in Instances |-> 0]
    /\ k_collected = [i \in Instances |-> <<>>]
    /\ k_made = [t \in Turns |-> {}]
    /\ k_trace = [t \in Turns |-> NoTrace]

QuotaOff ==
    /\ q_now = 0
    /\ q_quota = [u \in Users |-> None]
    /\ q_log = [u \in Users |-> [d \in LogDays |-> 0]]
    /\ q_pc = [r \in Requests |-> "off"]
    /\ q_user = [r \in Requests |-> "alice"]
    /\ q_resp = [r \in Requests |-> 0]

DbInitial ==
    /\ db_diagrams = {ExistingDiagram}
    /\ db_history = [d \in {ExistingDiagram} |-> StoredTurns]
    /\ db_versions = {} /\ db_chat = <<>> /\ db_genlog = {}

WebOff ==
    /\ w_pc = [r \in Requests |-> "off"]
    /\ w_view = [r \in Requests |-> "version"]
    /\ w_text = [r \in Requests |-> ""]
    /\ w_target = [r \in Requests |-> ExistingDiagram]
    /\ w_prev = [r \in Requests |-> <<>>]
    /\ w_agent = [r \in Requests |-> NoAgentCall]
    /\ w_resp = [r \in Requests |-> NoResponse]
    /\ DbInitial

\* one call of generate_with_retry(user_intent, context, max_retries), either generator
InitGen ==
    /\ g_pc = "called"
    /\ g_dialect \in Dialects
    /\ g_maxRetries \in 0..MaxRetries
    /\ g_i = 0 /\ g_calls = 0 /\ g_result = None /\ g_returned = None
    /\ g_log = <<>>
    /\ TurnOff /\ DspyFresh /\ ExtractOff /\ ValidateOff /\ QuotaOff /\ ConcOff /\ WebOff

NextGen == generate_with_retry

SpecGen == InitGen /\ [][NextGen]_vars

\* one turn: agent(user_instruction, previous_history_json) of either entry point
Init ==
    /\ GenIdle
    /\ impl \in {"core", "dspy", "generate"}
    /\ impl = "generate" => t_hist = "None"
    /\ t_pc = "start"
    /\ t_hist \in HistoryInputs
    /\ t_context = "" /\ t_label = "" /\ t_route = ""
    /\ t_question = "" /\ t_toolCalls = <<>> /\ t_outcome = NoOutcome
    \* generate_impl runs on an agent whose caller may have loaded an earlier history
    /\ t_loaded \in IF impl = "generate" THEN {"fresh", "loaded"} ELSE {"fresh"}
    /\ DspyWith(IF t_loaded = "loaded" THEN PriorMessages ELSE <<>>)
    /\ ExtractOff /\ ValidateOff /\ QuotaOff /\ ConcOff /\ WebOff

Next == core_agent \/ generate_with_retry \/ dspy_agent \/ generate_impl

Spec == Init /\ [][Next]_vars

RECURSIVE ResultSeqs(_)
\* the dictionaries of exactly n entries, keyed 1..n in insertion order
ResultSeqs(n) ==
    IF n = 0 THEN {<<>>}
    ELSE {Append(s, [id |-> n, content |-> Content(k, n)]) :
            s \in ResultSeqs(n - 1), k \in ContentKinds}

InitExtract ==
    /\ GenIdle /\ TurnOff /\ DspyFresh /\ ValidateOff /\ QuotaOff /\ ConcOff /\ WebOff
    /\ x_pc = "input"
    /\ x_results \in UNION {ResultSeqs(n) : n \in 0..MaxResults}
    /\ x_out = None

NextExtract == x_extract_returns \/ x_extract_raises

SpecExtract == InitExtract /\ [][NextExtract]_vars

\* two requests of one user, handled by concurrent workers
InitWeb ==
    /\ GenIdle /\ TurnOff /\ DspyFresh /\ ExtractOff /\ ValidateOff /\ QuotaOff /\ ConcOff
    /\ w_pc = [r \in Requests |-> "new"]
    /\ w_view \in [Requests -> {"create", "version"}]
    /\ w_text \in [Requests -> {"", "draw a diagram"}]
    /\ w_target \in [Requests -> {ExistingDiagram, MissingDiagram}]
    /\ \A r \in Requests : w_view[r] = "create" => w_target[r] = ExistingDiagram
    /\ w_prev = [r \in Requests |-> <<>>]
    /\ w_agent = [r \in Requests |-> NoAgentCall]
    /\ w_resp = [r \in Requests |-> NoResponse]
    /\ DbInitial

NextWeb ==
    \E r \in Requests :
        \/ create_call_agent(r)
        \/ create_respond(r)
        \/ version_read(r)
        \/ version_call_agent(r)
        \/ version_respond(r)

SpecWeb == InitWeb /\ [][NextWeb]_vars

\* one validator instance, validate called on it up to MaxValidations times
InitValidate ==
    /\ GenIdle /\ TurnOff /\ DspyFresh /\ ExtractOff /\ QuotaOff /\ ConcOff /\ WebOff
    /\ v_pc = "ready"
    /\ v_dialect \in Dialects
    /\ v_calls = <<>>

NextValidate == validator_validate

SpecValidate == InitValidate /\ [][NextValidate]_vars

\* the quota rows an administrator can have stored for a user
QuotaRows ==
    { None,
      UserQuota(1, "day", FALSE),
      UserQuota(2, "week", FALSE),
      UserQuota(2, "month", FALSE),
      UserQuota(1, "day", TRUE) }

\* two generation POSTs, on the morning of 2026-01-01, with the logs of earlier requests
InitQuota ==
    /\ GenIdle /\ TurnOff /\ DspyFresh /\ ExtractOff /\ ValidateOff /\ ConcOff /\ WebOff
    /\ q_now = 0
    /\ q_quota \in [Users -> QuotaRows]
    /\ q_quota["bob"] = None
    /\ q_log \in [Users -> [LogDays -> {0, 1, 2, 9}]]
    /\ \A u \in Users : \A d \in LogDays :
          /\ d > 0 => q_log[u][d] = 0
          /\ d < 0 => q_log[u][d] \in {0, 1}
    /\ q_log["alice"][0] \in {0, 1, 9}
    /\ q_log["bob"][0] \in {0, 2} /\ q_log["bob"][-1] = 0 /\ q_log["bob"][-4] = 0
    /\ q_pc = [r \in Requests |-> "new"]
    /\ q_user \in [Requests -> Users]
    /\ q_user[1] = "alice"
    /\ q_resp = [r \in Requests |-> 0]

NextQuota ==
    \/ \E r \in Requests : check_throttles(r) \/ view_post(r)
    \/ next_day

SpecQuota == InitQuota /\ [][NextQuota]_vars

\* the turns of one process, none started yet
InitConc ==
    /\ GenIdle /\ TurnOff /\ DspyFresh /\ ExtractOff /\ ValidateOff /\ QuotaOff /\ WebOff
    /\ k_pc = [t \in Turns |-> "new"]
    /\ k_inst = [t \in Turns |-> 0]
    /\ k_stack = <<>>
    /\ k_counter = [i \in Instances |-> 0]
    /\ k_collected = [i \in Instances |-> <<>>]
    /\ k_made = [t \in Turns |-> {}]
    /\ k_trace = [t \in Turns |-> NoTrace]

NextConc ==
    \E t \in Turns :
        \/ conc_turn_starts(t)
        \/ conc_call_begins(t)
        \/ conc_call_resolves(t)
        \/ conc_call_returns(t)
        \/ conc_turn_ends(t)

SpecConc == InitConc /\ [][NextConc]_vars

-----------------------------------------------------------------------------
(* C1: one call of generate_with_retry performs at most 1 + max_retries    *)
(* calls of forward, for either generator, every max_retries >= 0 and      *)
(* every sequence of validation outcomes.                                  *)
C1_RetryBound == g_calls <= 1 + g_maxRetries

\* every attempt was invalid and all 1 + max_retries attempts were made
C1_Witness ==
    /\ g_pc = "returned"
    /\ g_maxRetries >= 2
    /\ g_calls = 1 + g_maxRetries
    /\ ~g_returned.is_valid

(* C2: generate_with_retry always ends by returning a result, never by     *)
(* throwing, and the result returned is the one of the last attempt made,  *)
(* so it is valid iff that attempt's validation passed.                    *)
C2_AlwaysReturnsLast ==
    /\ g_pc # "raised"
    /\ g_pc = "returned" =>
         /\ g_returned = g_log[Len(g_log)].result
         /\ g_returned.is_valid = g_log[Len(g_log)].result.validation_result.is_valid

(* C3: in every turn the external render tool is called only with code     *)
(* whose validation result is valid; a generator whose last attempt is     *)
(* still invalid ends the turn as a generation failure that carries the    *)
(* validator's errors, with no tool call made.                             *)
C3_ToolCallsOnlyWithValidCode ==
    /\ \A i \in DOMAIN t_toolCalls :
         validate(dialect_of_tool(t_toolCalls[i].tool), t_toolCalls[i].code).is_valid
    /\ (impl = "core" /\ t_pc = "done" /\ g_pc = "returned" /\ ~g_returned.is_valid) =>
         /\ t_outcome.kind = "CodeGenerationError"
         /\ t_outcome.validation_errors = g_returned.validation_result.errors
         /\ t_toolCalls = <<>>

C5_DialectOnlyForKnownLabel ==
    /\ (impl = "dspy" /\ t_route # "") =>
         /\ t_route = "draw_technical_diagram" => lower(t_label) \in TechnicalKeywords
         /\ t_route = "draw_mermaid" => lower(t_label) \in MermaidKeywords
         /\ lower(t_label) \in FallbackKeywords => t_route = "fallback"
         /\ lower(t_label) \notin all_keywords => t_route = "fallback"
    /\ (impl = "core" /\ g_pc # "idle") =>
         /\ t_label \in Dialects
         /\ g_dialect = t_label
         /\ t_route = tool_of_choice(t_label)

\* a label that is no keyword at all was classified and the turn went to the fallback
C5_Witness ==
    /\ impl = "dspy" /\ t_label = "sketch" /\ t_route = "fallback" /\ t_pc = "fallback"

(* C6: when the classification call fails, or answers a label that cannot  *)
(* be parsed, the turn ends as Clarify with a clarifying question: the     *)
(* failure does not leave agent() and no generator runs.                   *)
C6_ClassificationFailureIsClarify ==
    /\ t_outcome.kind = "exception" =>
         t_outcome.exc \notin {"RouterCallFailed", "ValidationError"}
    /\ (t_pc = "done" /\ t_label \notin RouterChoices /\ impl = "core") =>
         /\ t_outcome.kind = "ClarificationNeeded"
         /\ g_pc = "idle"

\* the history strings that from_json cannot load
CorruptHistories ==
    {h \in HistoryInputs : HistoryGiven(h) /\ from_json_outcomes(h) = {"raise"}}

(* C7: a previous_history_json that fails to load never fails the turn:    *)
(* no exception leaves agent() because of it, and the turn goes on to      *)
(* routing with an empty history.                                          *)
C7_HistoryFailureNeverFailsTurn ==
    /\ t_outcome # Raised("AttributeError in format_conversation_history")
    /\ (t_pc = "done" /\ t_hist \in CorruptHistories) =>
         t_label # "" \/ t_outcome = Raised("RouterCallFailed")

\* the results of a dictionary that are JSON objects with a "uri" key
UriResults(results) ==
    {k \in DOMAIN results : results[k].content.kind = "json_obj_uri"}

(* C8: given N tool results of which only the K-th is structured data with *)
(* a uri field, the extraction returns exactly the K-th, whatever the      *)
(* other entries are (error strings, text that is not JSON, JSON without   *)
(* a uri); when no entry qualifies it returns no result.                   *)
C8_ExtractsTheUriResult ==
    /\ x_pc # "raised"
    /\ (x_pc = "returned" /\ UriResults(x_results) = {}) => x_out = None
    /\ (x_pc = "returned" /\ Cardinality(UriResults(x_results)) = 1) =>
         \A k \in UriResults(x_results) : x_out = x_results[k].content

(* C9: a tool invocation made by the generating module performs no         *)
(* external call: it records a pending call and returns a placeholder;     *)
(* the external call is made only in the resolution step that follows the  *)
(* module's reasoning.                                                     *)
C9_SyncInvocationIsDeferred ==
    impl = "dspy" =>
        /\ \A i \in DOMAIN t_toolCalls : t_toolCalls[i].phase = "resolve"
        /\ \A i \in DOMAIN d_observed : d_observed[i].kind = "placeholder"

(* C10: a transport or remote error (a timeout included) of a tool call    *)
(* does not throw: the call is recorded with an error string as its        *)
(* ordinary tool result, and the turn reaches the extraction step, which   *)
(* skips that entry.                                                       *)
C10_TransportErrorIsRecorded ==
    impl = "dspy" =>
        /\ \A i \in DOMAIN d_observed : d_observed[i].kind # "exception"
        /\ t_pc \in {"extract", "done"} =>
             \A i \in DOMAIN t_toolCalls :
                 t_toolCalls[i].failed =>
                     \E j \in DOMAIN d_toolResults :
                         /\ d_toolResults[j].id = t_toolCalls[i].id
                         /\ d_toolResults[j].content.kind = "error_text"

(* C11: a turn whose code was valid but whose render tool call failed ends *)
(* as a tool-invocation failure, an outcome distinct from a clarification, *)
(* from a validation failure and from a successful diagram.                *)
C11_ToolFailureIsDistinct ==
    (/\ t_pc = "done"
     /\ t_toolCalls # <<>>
     /\ \A i \in DOMAIN t_toolCalls :
          /\ t_toolCalls[i].failed
          /\ validate(dialect_of_tool(t_toolCalls[i].tool), t_toolCalls[i].code).is_valid)
    => t_outcome.kind = "MCPToolError"

\* s is a prefix of t
IsPrefix(s, t) == Len(s) <= Len(t) /\ SubSeq(t, 1, Len(s)) = s

\* the history a turn started from: what was loaded from previous_history_json
LoadedHistory == IF t_loaded = "loaded" THEN PriorMessages ELSE <<>>

(* C13: the history only grows by appending: the history loaded before a   *)
(* turn is an unchanged prefix of the history the turn returns, and the    *)
(* messages of the turn (its tool calls and their results) follow it.      *)
C13_HistoryOnlyGrows ==
    (impl = "dspy" /\ d_historyOut.returned) =>
        /\ IsPrefix(LoadedHistory, d_historyOut.messages)
        /\ d_historyOut.messages = LoadedHistory \o d_history

\* both requests are turns of the existing conversation whose agent call returned a
\* history with the turn appended, and both have been answered
BothTurnsStored ==
    \A r \in Requests :
        /\ w_view[r] = "version" /\ w_target[r] = ExistingDiagram
        /\ w_pc[r] = "done" /\ w_resp[r].status = 201
        /\ w_agent[r].history = w_prev[r] \o <<TurnOf(r)>>

(* C14: two requests against one conversation are serialized: once both   *)
(* have completed, the stored history holds both turns' appends in         *)
(* arrival order, neither lost, overwritten nor interleaved.               *)
C14_ConcurrentTurnsSerialized ==
    BothTurnsStored =>
        db_history[ExistingDiagram] = StoredTurns \o <<TurnOf(1), TurnOf(2)>>

\* the ways a turn ends that the caller is meant to see
TurnOutcomes ==
    {"AgentResult", "ClarificationNeeded", "CodeGenerationError", "MCPToolError",
     "response"}

(* C15: exactly one trace record is written per turn, on every path a     *)
(* turn can take (diagram, clarification, validation failure, tool         *)
(* failure), each under a trace id of its own.                             *)
C15_OneTracePerTurn ==
    /\ (t_pc = "done" /\ t_outcome.kind \in TurnOutcomes) => Cardinality(d_traces) = 1
    /\ \A a, b \in d_traces : a.trace_id = b.trace_id => a = b

(* C16: a failure to persist the trace record never fails the turn: the   *)
(* turn whose main module has returned ends with the response it would     *)
(* have returned had the trace been written.                               *)
C16_TraceFailureNeverFailsTurn ==
    (impl = "generate" /\ t_pc = "done" /\ t_route # "") =>
        /\ t_outcome.kind = "response"
        /\ t_outcome.text = (IF t_route = "fallback" /\ t_question # ""
                             THEN t_question ELSE "str(prediction)")

(* C17: when the turn of a create request ends on the clarification path, *)
(* the endpoint answers 200 with clarification_needed = true, and stores   *)
(* no Diagram, no DiagramVersion and no generation log for the request.    *)
C17_ClarificationAnswers200 ==
    \A r \in Requests :
        (w_view[r] = "create" /\ w_pc[r] = "done"
            /\ w_agent[r].kind = "ClarificationNeeded") =>
            /\ w_resp[r].status = 200
            /\ w_resp[r].clarification_needed
            /\ NewDiagram(r) \notin db_diagrams
            /\ \A v \in db_versions : v.request # r
            /\ r \notin db_genlog

(* C18: in every result validate returns, of either validator, is_valid   *)
(* is true iff the error list is empty; a result with warnings and no      *)
(* errors is valid.                                                        *)
C18_ValidIffNoErrors ==
    \A i \in DOMAIN v_calls :
        v_calls[i].result.is_valid <=> (v_calls[i].result.errors = <<>>)

C18_Witness ==
    /\ \E i \in DOMAIN v_calls :
          v_calls[i].result.is_valid /\ v_calls[i].result.warnings # <<>>
    /\ \E i \in DOMAIN v_calls :
          ~v_calls[i].result.is_valid /\ v_calls[i].result.errors # <<>>

denylisted_constructs(code) ==
    CASE code \in {"import os", "import\tos"} -> <<"import">>
      [] code = "import os\nimport sys" -> <<"import", "import">>
      [] code = "eval('1+1')" -> <<"eval">>
      [] code = "x = open('f')" -> <<"open">>
      [] code = "os.system('ls')" -> <<"os">>
      [] code = "with Diagram('t'):\n    web = ELB('web')" -> <<"with">>
      [] OTHER -> <<>>

(* C20: the Python validator rejects a code string iff it is blank, holds  *)
(* a denylisted construct or does not parse; it reports one error per      *)
(* offending construct; an accepted string without an edge operator        *)
(* carries a warning.                                                      *)
C20_PythonRejectsExactlyTheDenylist ==
    v_dialect = "python_diagrams" =>
        \A i \in DOMAIN v_calls :
            LET code == v_calls[i].code
                r == v_calls[i].result
                offending == \/ is_blank(code)
                             \/ ast_parse_raises(code)
                             \/ denylisted_constructs(code) # <<>>
            IN  /\ ~r.is_valid <=> offending
                /\ (~is_blank(code) /\ ~ast_parse_raises(code)) =>
                       Len(r.errors) = Len(denylisted_constructs(code))
                /\ (r.is_valid /\ ~contains(code, ">>") /\ ~contains(code, "Edge(")) =>
                       r.warnings # <<>>

(* C21: the Mermaid validator accepts a code string iff it has a          *)
(* non-blank line and the first of them starts with one of DIAGRAM_TYPES;  *)
(* a rejected string carries one error, which lists the valid kinds when   *)
(* the declaration is missing; the kind-specific checks add no error.      *)
C21_MermaidVerdictFromFirstLine ==
    v_dialect = "mermaid" =>
        \A i \in DOMAIN v_calls :
            LET code == v_calls[i].code
                r == v_calls[i].result
                lines == non_blank_lines(code)
                declares == /\ lines # <<>>
                            /\ \E n \in DOMAIN DIAGRAM_TYPES :
                                  startswith(str_lower(lines[1]), str_lower(DIAGRAM_TYPES[n]))
            IN  /\ r.is_valid <=> declares
                /\ r.is_valid => r.errors = <<>>
                /\ ~r.is_valid => Len(r.errors) = 1
                /\ (lines # <<>> /\ ~declares) =>
                       \A n \in DOMAIN DIAGRAM_TYPES : contains(r.errors[1], DIAGRAM_TYPES[n])

C21_Witness ==
    /\ v_dialect = "mermaid"
    /\ \E i \in DOMAIN v_calls :
          /\ v_calls[i].result.is_valid
          /\ "No arrow connections found in flowchart" \in
                 {v_calls[i].result.warnings[n] : n \in DOMAIN v_calls[i].result.warnings}
    /\ \E i \in DOMAIN v_calls :
          /\ v_calls[i].code = "A --> B\nflowchart TD"
          /\ ~v_calls[i].result.is_valid

\* the start of the period that holds day d, read off the calendar: 2026-01-01 is a
\* Thursday, its week starts on Monday 2025-12-29, the next week on Monday 2026-01-05
CalendarPeriodStart(period, d) ==
    IF period = "day" THEN d
    ELSE IF period = "week" THEN (IF d < 4 THEN -3 ELSE 4)
    ELSE 0

(* C22: a generation POST of a user whose quota is not unlimited is        *)
(* answered 429 at the throttle check iff the user's own log rows since    *)
(* the start of the current day, week or month are at least the quota      *)
(* limit (10 per day without a quota row); a user with unlimited quota is  *)
(* never answered 429.                                                     *)
C22_ThrottledIffQuotaUsed ==
    [][\A r \in Requests :
          (q_pc[r] = "new" /\ q_pc'[r] # "new") =>
              LET u == q_user[r]
                  row == q_quota[u]
                  limit == IF row = None THEN 10 ELSE row.quota_limit
                  period == IF row = None THEN "day" ELSE row.period
                  start == CalendarPeriodStart(period, q_now)
                  used == SumOver({d \in LogDays : d >= start}, q_log[u])
              IN  IF row # None /\ row.is_unlimited
                  THEN q_resp'[r] # 429
                  ELSE (q_resp'[r] = 429) <=> (used >= limit)]_vars

C22_Witness ==
    \E r1, r2 \in Requests :
        /\ q_user[r1] = q_user[r2]
        /\ q_resp[r1] = 429
        /\ q_pc[r2] = "allowed"
        /\ q_now = 1
        /\ q_log["bob"][0] > 0

(* C23: no attempt follows an attempt whose validation passed; when       *)
(* generate_with_retry returns, the number of attempts is the index of the *)
(* first valid attempt, or 1 + max_retries when no attempt was valid.      *)
C23_StopsAtFirstValid ==
    /\ \A k \in 1..(Len(g_log) - 1) : ~g_log[k].result.is_valid
    /\ g_pc = "returned" =>
         /\ g_calls = Len(g_log)
         /\ g_returned.is_valid \/ g_calls = 1 + g_maxRetries

\* invalid, then valid, with retries to spare: exactly two attempts
C23_Witness ==
    /\ g_pc = "returned"
    /\ g_maxRetries >= 2
    /\ g_calls = 2
    /\ ~g_log[1].result.is_valid
    /\ g_returned.is_valid

(* C24: the first attempt is given the user intent alone; retry k is given *)
(* the user intent and the feedback rendered from the validation result of *)
(* attempt k-1, and nothing of the attempts before it.                     *)
C24_FeedbackFromPredecessorOnly ==
    \A k \in DOMAIN g_log :
        IF k = 1
        THEN g_log[k].intent = <<"user_intent">>
        ELSE g_log[k].intent =
                 <<"user_intent", "PREVIOUS ATTEMPT FAILED VALIDATION:">>
                     \o get_feedback(g_log[k - 1].result.validation_result)
                     \o <<"Please fix the issues and regenerate.">>

\* a third attempt, after two attempts that failed for different reasons
C24_Witness ==
    /\ Len(g_log) >= 3
    /\ g_log[1].result.validation_result.errors # g_log[2].result.validation_result.errors

(* C25: every tool call message of the agent's history is immediately     *)
(* followed by the tool result message of the same call id, in every state *)
(* and so in every state in which the turn is complete.                    *)
C25_EveryRecordedCallHasItsResult ==
    \A i \in DOMAIN d_history :
        d_history[i].kind = "tool_call" =>
            /\ i + 1 \in DOMAIN d_history
            /\ d_history[i + 1].kind = "tool_result"
            /\ d_history[i + 1].id = d_history[i].id

\* a complete turn with a recorded call and a call whose transport failed
C25_Witness ==
    /\ t_pc = "done"
    /\ \E i \in DOMAIN d_history : d_history[i].kind = "tool_call"
    /\ \E i \in DOMAIN t_toolCalls : t_toolCalls[i].failed

(* C26: when several tool results of the turn are structured data with a  *)
(* uri field, the extraction returns the most recent of them; an entry     *)
(* that is an error text is never returned.                                *)
C26_ExtractsTheMostRecentUriResult ==
    x_pc = "returned" =>
        /\ x_out # None => x_out.kind # "error_text"
        /\ Cardinality(UriResults(x_results)) > 1 =>
               \E k \in UriResults(x_results) :
                   /\ \A j \in UriResults(x_results) : j <= k
                   /\ x_out = x_results[k].content

(* C27: the id of every tool call of the turn differs from the id of      *)
(* every other tool call of the turn and from every id of the loaded       *)
(* history, and no id has two stored results.                              *)
C27_FreshCallIds ==
    /\ \A i, j \in DOMAIN t_toolCalls :
          i # j => t_toolCalls[i].id # t_toolCalls[j].id
    /\ \A i, j \in DOMAIN d_collected :
          i # j => d_collected[i].id # d_collected[j].id
    /\ \A i \in DOMAIN t_toolCalls : \A m \in DOMAIN LoadedHistory :
          LoadedHistory[m].id # t_toolCalls[i].id

UriResultsOfTurn ==
    {i \in DOMAIN d_collected : uri_test(d_collected[i].content) = "hit"}

(* C29: the diagram result read from the message history after a turn     *)
(* comes from a tool call of that turn: when the turn produced no tool     *)
(* result that holds a uri, the extraction returns no uri result, and so   *)
(* none that an earlier turn of the loaded history recorded.               *)
C29_ResultComesFromThisTurn ==
    (impl = "generate" /\ t_pc = "extracted" /\ UriResultsOfTurn = {}) =>
        d_extracted \in {EmptyDict, Raised("TypeError in extract_last_tool_result")}

\* the generations logged for user u in the period that holds day d, and the limit
UsedInPeriod(log, u, d) ==
    LET row == q_quota[u]
        period == IF row = None THEN DEFAULT_QUOTA_PERIOD ELSE row.period
    IN  SumOver({x \in LogDays : x >= CalendarPeriodStart(period, d)}, log[u])

LimitOf(u) == IF q_quota[u] = None THEN DEFAULT_QUOTA_LIMIT ELSE q_quota[u].quota_limit

(* C30: for a user whose quota is finite, no log write takes the number of *)
(* generations logged for the user in the current period above the quota   *)
(* limit, however the generation requests of the user interleave.          *)
C30_LoggedGenerationsWithinQuota ==
    [][\A u \in Users :
          (/\ ~(q_quota[u] # None /\ q_quota[u].is_unlimited)
           /\ q_log'[u] # q_log[u]
           /\ UsedInPeriod(q_log, u, q_now) <= LimitOf(u))
          => UsedInPeriod(q_log', u, q_now') <= LimitOf(u)]_vars

====
